---- MODULE Spec2Model ----
(***************************************************************************)
(* Eligibility decision engine of SC2-Backend                              *)
(* (src/eligibility/eligibility_checker.py).                               *)
(*                                                                         *)
(* Python objects are tagged tuples, tag first:                            *)
(*   <<"none">>  <<"bool", b>>  <<"int", n>>  <<"float", m, e>> (= m/10^e) *)
(*   <<"str", s>>   s a sequence of characters (one-character strings; a   *)
(*                  literal piece of a formatted message is one element)   *)
(*   <<"list", xs>> xs a sequence of objects                               *)
(*   <<"dict", f>>  f a function from keys to objects                      *)
(* A raised exception is <<"raise", name>>.                                *)
(***************************************************************************)
EXTENDS Integers, Sequences, FiniteSets, TLC

(***************************************************************************)
(* State: the invocations of check_detailed_eligibility, each with its     *)
(* position in the code and its locals                                     *)
(***************************************************************************)
VARIABLES
    pc,             \* where each invocation stands
    payload,        \* its argument
    bundle_resp,    \* what the oracle answered to the four-criterion request
    skills_resp,    \* what the oracle answered to the skills request
    ai_eligibility, \* the local of that name (line 363)
    skills_result,  \* the local of that name (line 366)
    outcome,        \* the returned response, or the exception that left the call
    requests,       \* oracle requests sent, per bundle
    fallbacks       \* runs of the local fallback, per bundle

vars == <<pc, payload, bundle_resp, skills_resp, ai_eligibility, skills_result,
          outcome, requests, fallbacks>>

(***************************************************************************)
(* Characters and str methods                                              *)
(***************************************************************************)
Uppers == <<"A","B","C","D","E","F","G","H","I","J","K","L","M",
            "N","O","P","Q","R","S","T","U","V","W","X","Y","Z">>
Lowers == <<"a","b","c","d","e","f","g","h","i","j","k","l","m",
            "n","o","p","q","r","s","t","u","v","w","x","y","z">>
Digits == <<"0","1","2","3","4","5","6","7","8","9">>

\* position of c in seq, 0 when absent
IndexOf(seq, c) ==
    IF \E i \in DOMAIN seq : seq[i] = c
    THEN CHOOSE i \in DOMAIN seq : seq[i] = c /\ \A j \in 1..(i-1) : seq[j] # c
    ELSE 0

LowerChar(c) == LET i == IndexOf(Uppers, c) IN IF i = 0 THEN c ELSE Lowers[i]
UpperChar(c) == LET i == IndexOf(Lowers, c) IN IF i = 0 THEN c ELSE Uppers[i]

\* str.lower(), str.upper()
lower(s) == [i \in DOMAIN s |-> LowerChar(s[i])]
upper(s) == [i \in DOMAIN s |-> UpperChar(s[i])]

IsSpace(c) == c = " "

\* str.strip()
strip(s) ==
    LET keep == {i \in DOMAIN s : ~IsSpace(s[i])}
    IN  IF keep = {} THEN <<>>
        ELSE LET lo == CHOOSE i \in keep : \A j \in keep : i <= j
                 hi == CHOOSE i \in keep : \A j \in keep : j <= i
             IN  SubSeq(s, lo, hi)

\* needle in hay, for two str
Contains(hay, needle) ==
    \E k \in 0..(Len(hay) - Len(needle)) :
        SubSeq(hay, k + 1, k + Len(needle)) = needle

\* x in xs, for a sequence xs
InSeq(x, xs) == \E i \in DOMAIN xs : xs[i] = x

RECURSIVE Pow10(_)
Pow10(e) == IF e = 0 THEN 1 ELSE 10 * Pow10(e - 1)

RECURSIVE DigitsOf(_)
\* decimal digits of a natural number
DigitsOf(n) == IF n < 10 THEN <<Digits[n + 1]>>
               ELSE DigitsOf(n \div 10) \o <<Digits[(n % 10) + 1]>>

RECURSIVE NatOf(_)
\* value of a non-empty sequence of digits
NatOf(ds) == IF Len(ds) = 0 THEN 0
             ELSE 10 * NatOf(SubSeq(ds, 1, Len(ds) - 1))
                  + (IndexOf(Digits, ds[Len(ds)]) - 1)

(***************************************************************************)
(* Python objects                                                          *)
(***************************************************************************)
PyNone == <<"none">>
PyBool(b) == <<"bool", b>>
PyInt(n) == <<"int", n>>
PyStr(s) == <<"str", s>>
PyList(xs) == <<"list", xs>>
PyDict(f) == <<"dict", f>>
Raise(name) == <<"raise", name>>

RECURSIVE PyFloat(_, _)
\* the float m / 10^e, in lowest terms of e
PyFloat(m, e) == IF e > 0 /\ m % 10 = 0 THEN PyFloat(m \div 10, e - 1)
                 ELSE <<"float", m, e>>

Tag(v) == v[1]
IsNone(v) == Tag(v) = "none"
IsStr(v) == Tag(v) = "str"
IsList(v) == Tag(v) = "list"
IsDict(v) == Tag(v) = "dict"
IsNum(v) == Tag(v) \in {"int", "float"}
IsRaise(v) == Tag(v) = "raise"

\* mantissa and number of decimals of a number
Mant(v) == v[2]
Expo(v) == IF Tag(v) = "float" THEN v[3] ELSE 0

\* a <= b for two numbers
NumLeq(a, b) == Mant(a) * Pow10(Expo(b)) <= Mant(b) * Pow10(Expo(a))

\* code point order of the characters that occur in compared strings
Ascii == <<" ", "%", ",", ".">> \o Digits \o Uppers \o Lowers

RECURSIVE StrLeq(_, _)
\* s <= t for two str: lexicographic
StrLeq(s, t) ==
    IF Len(s) = 0 THEN TRUE
    ELSE IF Len(t) = 0 THEN FALSE
    ELSE IF s[1] = t[1] THEN StrLeq(Tail(s), Tail(t))
    ELSE IndexOf(Ascii, s[1]) < IndexOf(Ascii, t[1])

\* a < b in the place of a <= b: the bound itself is left out
PyLt(a, b) ==
    IF IsNum(a) /\ IsNum(b) THEN PyBool(NumLeq(a, b) /\ ~NumLeq(b, a))
    ELSE IF IsStr(a) /\ IsStr(b) THEN PyBool(StrLeq(a[2], b[2]) /\ a[2] # b[2])
    ELSE Raise("TypeError")

\* a <= b as Python evaluates it: a bool, or a raised TypeError
PyLeq(a, b) ==
    IF IsNum(a) /\ IsNum(b) THEN PyBool(NumLeq(a, b))
    ELSE IF IsStr(a) /\ IsStr(b) THEN PyBool(StrLeq(a[2], b[2]))
    ELSE Raise("TypeError")

\* a == b: numbers by value, everything else by structure
PyEq(a, b) ==
    IF IsNum(a) /\ IsNum(b) THEN NumLeq(a, b) /\ NumLeq(b, a)
    ELSE a = b

\* x in xs for a Python list xs
PyIn(x, xs) == \E i \in DOMAIN xs : PyEq(x, xs[i])

\* d.get(k, default)
Get(d, k, default) == IF k \in DOMAIN d THEN d[k] ELSE default

\* d without key, and d with d[key] = v
Without(d, key) == [k \in DOMAIN d \ {key} |-> d[k]]
With(d, key, v) == [k \in DOMAIN d \cup {key} |-> IF k = key THEN v ELSE d[k]]

\* the characters of str(v), for None, bool, int, float and str
str(v) ==
    CASE Tag(v) = "str" -> v[2]
      [] Tag(v) = "none" -> <<"N","o","n","e">>
      [] Tag(v) = "bool" -> IF v[2] THEN <<"T","r","u","e">>
                            ELSE <<"F","a","l","s","e">>
      [] Tag(v) = "int" -> DigitsOf(v[2])
      [] Tag(v) = "float" ->
            LET p == Pow10(v[3])
                frac == DigitsOf(v[2] % p)
                pad == [i \in 1..(v[3] - Len(frac)) |-> "0"]
            IN  DigitsOf(v[2] \div p) \o <<".">>
                \o (IF v[3] = 0 THEN <<"0">> ELSE pad \o frac)
      [] OTHER -> <<"<object>">>

IsDigit(c) == IndexOf(Digits, c) # 0

\* float(s) for a str: surrounding blanks are dropped, then the whole text
\* must be digits with at most one point and at least one digit
FloatOfStr(s) ==
    LET t == strip(s)
        dots == {i \in DOMAIN t : t[i] = "."}
    IN  IF /\ Len(t) > 0
           /\ \A i \in DOMAIN t : IsDigit(t[i]) \/ t[i] = "."
           /\ Cardinality(dots) <= 1
           /\ \E i \in DOMAIN t : IsDigit(t[i])
        THEN LET ds == SelectSeq(t, IsDigit)
                 e == IF dots = {} THEN 0
                      ELSE Len(t) - (CHOOSE i \in dots : TRUE)
             IN  PyFloat(NatOf(ds), e)
        ELSE Raise("ValueError")

\* float(v)
float(v) ==
    CASE IsNum(v) -> PyFloat(Mant(v), Expo(v))
      [] Tag(v) = "bool" -> PyFloat(IF v[2] THEN 1 ELSE 0, 0)
      [] IsStr(v) -> FloatOfStr(v[2])
      [] OTHER -> Raise("TypeError")

RECURSIVE JoinFrom(_, _, _)
JoinFrom(sep, xs, i) ==
    IF i > Len(xs) THEN <<>>
    ELSE (IF i = 1 THEN <<>> ELSE sep) \o xs[i][2] \o JoinFrom(sep, xs, i + 1)

\* sep.join(xs) for a list xs: the str, or TypeError when an item is no str
Join(sep, xs) ==
    IF \A i \in DOMAIN xs : IsStr(xs[i]) THEN PyStr(JoinFrom(sep, xs, 1))
    ELSE Raise("TypeError")

(***************************************************************************)
(* Results                                                                 *)
(***************************************************************************)
Pass == PyStr(<<"pass">>)
Fail == PyStr(<<"fail">>)
Partial == PyStr(<<"partial">>)

\* {"status": status, "message": message}
Criterion(status, message) ==
    PyDict([status |-> status, message |-> PyStr(message)])

(***************************************************************************)
(* manual_eligibility_check: the local rules for the four criteria         *)
(***************************************************************************)
All == PyStr(<<"A","l","l">>)

\* the branches compared as written, without upper()
CourseCheckExact(stream, eligible_branches) ==
    IF PyIn(All, eligible_branches) THEN PyBool(TRUE)
    ELSE IF ~IsStr(stream) THEN Raise("AttributeError")
    ELSE PyBool(PyIn(stream, eligible_branches))

\* "All" in eligible_branches or
\* stream.upper() in [b.upper() for b in eligible_branches]
CourseCheck(stream, eligible_branches) ==
    IF PyIn(All, eligible_branches) THEN PyBool(TRUE)
    ELSE IF ~IsStr(stream) THEN Raise("AttributeError")
    ELSE IF \E i \in DOMAIN eligible_branches : ~IsStr(eligible_branches[i])
         THEN Raise("AttributeError")
    ELSE PyBool(\E i \in DOMAIN eligible_branches :
                    upper(eligible_branches[i][2]) = upper(stream[2]))

\* the batches compared as they are, without str()
BatchCheckRaw(batch, eligible_batches) == PyIn(batch, eligible_batches)

\* str(batch) in [str(b) for b in eligible_batches]
BatchCheck(batch, eligible_batches) ==
    \E i \in DOMAIN eligible_batches : str(eligible_batches[i]) = str(batch)

\* [str(b) for b in xs]
StrAll(xs) == [i \in DOMAIN xs |-> PyStr(str(xs[i]))]

manual_eligibility_check(user_data, eligibility_criteria) ==
    LET avg_cgpa == Get(user_data, "avg_cgpa", PyFloat(0, 0))
        stream == Get(user_data, "stream", PyStr(<<>>))
        batch == Get(user_data, "batch", PyStr(<<>>))
        active_backlogs == Get(user_data, "activeBacklogs", PyInt(0))
        min_cgpa == float(Get(eligibility_criteria, "minCGPA", PyFloat(0, 0)))
        eligible_branches == Get(eligibility_criteria, "branches", PyList(<<>>))[2]
        eligible_batches == Get(eligibility_criteria, "batch", PyList(<<>>))[2]
        max_backlogs == Get(eligibility_criteria, "backlogs", PyInt(0))
        cgpa_cmp == PyLeq(min_cgpa, avg_cgpa)
        cgpa_ok == cgpa_cmp = PyBool(TRUE)
        cgpa_message == <<"Your CGPA (">> \o str(avg_cgpa) \o <<") ">>
            \o (IF cgpa_ok THEN <<"meets">> ELSE <<"is below">>)
            \o <<" the minimum requirement (">> \o str(min_cgpa) \o <<")">>
        course_cmp == CourseCheck(stream, eligible_branches)
        course_ok == course_cmp = PyBool(TRUE)
        course_message == <<"Your course (">> \o str(stream) \o <<") ">>
            \o (IF course_ok THEN <<"is eligible">>
                ELSE <<"is not in the eligible branches: ">>
                     \o Join(<<", ">>, eligible_branches)[2])
        batch_ok == BatchCheck(batch, eligible_batches)
        batch_message == <<"Your batch (">> \o str(batch) \o <<") ">>
            \o (IF batch_ok THEN <<"is eligible">>
                ELSE <<"is not eligible. Eligible batches: ">>
                     \o Join(<<", ">>, StrAll(eligible_batches))[2])
        backlogs_cmp == PyLeq(active_backlogs, max_backlogs)
        backlogs_ok == backlogs_cmp = PyBool(TRUE)
        backlogs_message == <<"You have ">> \o str(active_backlogs)
            \o <<" active backlog(s), ">>
            \o (IF backlogs_ok THEN <<"which meets">> ELSE <<"but maximum">>)
            \o <<" the requirement (<=">> \o str(max_backlogs) \o <<")">>
        status(ok) == IF ok THEN Pass ELSE Fail
    IN  IF IsRaise(min_cgpa) THEN min_cgpa
        ELSE IF IsRaise(cgpa_cmp) THEN cgpa_cmp
        ELSE IF IsRaise(course_cmp) THEN course_cmp
        ELSE IF IsRaise(backlogs_cmp) THEN backlogs_cmp
        ELSE PyDict([
            cgpa |-> Criterion(status(cgpa_ok), cgpa_message),
            course |-> Criterion(status(course_ok), course_message),
            batch |-> Criterion(status(batch_ok), batch_message),
            backlogs |-> Criterion(status(backlogs_ok), backlogs_message),
            overallEligible |->
                PyBool(cgpa_ok /\ course_ok /\ batch_ok /\ backlogs_ok)])

(***************************************************************************)
(* fallback_skills_matching: the local skill matcher                       *)
(***************************************************************************)
skill_mappings == <<
    <<<<"p","y","t","h","o","n">>,
      <<<<"p","y","t","h","o","n">>,
        <<"p","y">>>>>>,
    <<<<"j","a","v","a","s","c","r","i","p","t">>,
      <<<<"j","a","v","a","s","c","r","i","p","t">>,
        <<"j","s">>,
        <<"n","o","d","e",".","j","s">>,
        <<"n","o","d","e","j","s">>>>>>,
    <<<<"j","a","v","a">>,
      <<<<"j","a","v","a">>>>>>,
    <<<<"i","t">>,
      <<<<"i","n","f","o","r","m","a","t","i","o","n"," ",
          "t","e","c","h","n","o","l","o","g","y">>,
        <<"i","t">>,
        <<"c","o","m","p","u","t","e","r"," ","s","c","i","e","n","c","e">>,
        <<"c","s">>,
        <<"c","s","e">>>>>>,
    <<<<"e","c","e">>,
      <<<<"e","l","e","c","t","r","o","n","i","c","s"," ","a","n","d"," ",
          "c","o","m","m","u","n","i","c","a","t","i","o","n">>,
        <<"e","c","e">>,
        <<"e","l","e","c","t","r","o","n","i","c","s">>>>>>,
    <<<<"e","e">>,
      <<<<"e","l","e","c","t","r","i","c","a","l"," ",
          "e","n","g","i","n","e","e","r","i","n","g">>,
        <<"e","e">>,
        <<"e","l","e","c","t","r","i","c","a","l">>>>>>,
    <<<<"m","e">>,
      <<<<"m","e","c","h","a","n","i","c","a","l"," ",
          "e","n","g","i","n","e","e","r","i","n","g">>,
        <<"m","e">>,
        <<"m","e","c","h","a","n","i","c","a","l">>>>>>,
    <<<<"c","e">>,
      <<<<"c","i","v","i","l"," ","e","n","g","i","n","e","e","r","i","n","g">>,
        <<"c","e">>,
        <<"c","i","v","i","l">>>>>> >>

\* k in skill_mappings and a in skill_mappings[k]
MappedTo(k, a) ==
    \E i \in DOMAIN skill_mappings :
        skill_mappings[i][1] = k /\ InSeq(a, skill_mappings[i][2])

\* req_skill_lower in user_skills_lower
DirectMatch(req, users) == InSeq(req, users)
\* the loop over the user skills not left at the first hit: the last decides
MappingMatchLast(req, users) ==
    users # <<>> /\ MappedTo(req, users[Len(users)])
\* some user skill is listed under the required skill
MappingMatch(req, users) == \E i \in DOMAIN users : MappedTo(req, users[i])
\* the table read from the required skill only
ReverseMatchNever(req, users) == FALSE
\* the required skill is listed under some user skill
ReverseMatch(req, users) == \E i \in DOMAIN users : MappedTo(users[i], req)
\* req_skill_lower in user_skill or user_skill in req_skill_lower
PartialMatch(req, users) ==
    \E i \in DOMAIN users : Contains(users[i], req) \/ Contains(req, users[i])

\* is_matched at the end of the loop body, for the normalised strings
IsMatched(req, users) ==
    \/ DirectMatch(req, users)
    \/ MappingMatch(req, users)
    \/ ReverseMatch(req, users)
    \/ PartialMatch(req, users)

\* the status and message both matchers derive from the two lengths
SkillsStatus(n_matched, n_required) ==
    IF n_matched = n_required THEN Pass
    ELSE IF n_matched > 0 THEN Partial
    ELSE Fail

SkillsMessage(n_matched, n_required) ==
    IF n_matched = n_required
    THEN <<"All ">> \o DigitsOf(n_required) \o <<" required skills matched">>
    ELSE IF n_matched > 0
    THEN DigitsOf(n_matched) \o <<" out of ">> \o DigitsOf(n_required)
         \o <<" required skills matched">>
    ELSE <<"None of the ">> \o DigitsOf(n_required)
         \o <<" required skills matched">>

SkillsResult(status, message, matched, missing) ==
    PyDict([status |-> status, message |-> message,
            matchedSkills |-> matched, missingSkills |-> missing])

\* lines 138-175: the required skills the loop appends to matched_skills
\* (hit) or to missing_skills (not hit), in the order of required_skills
SkillsSorted(user_skills, required_skills, wanted) ==
    LET user_skills_lower ==
            [i \in DOMAIN user_skills |-> strip(lower(user_skills[i][2]))]
        keep(r) == IsMatched(strip(lower(r[2])), user_skills_lower) = wanted
    IN  SelectSeq(required_skills, keep)

\* lines 177-193
SkillsVerdict(matched_skills, missing_skills, required_skills) ==
    SkillsResult(
        SkillsStatus(Len(matched_skills), Len(required_skills)),
        PyStr(SkillsMessage(Len(matched_skills), Len(required_skills))),
        PyList(matched_skills), PyList(missing_skills))

\* a non-str skill has no lower()
NotAllStr(xs) == \E i \in DOMAIN xs : ~IsStr(xs[i])

\* matched_skills kept in a list shared by all calls: what earlier calls
\* matched is still in it
fallback_skills_shared_list(user_skills, required_skills) ==
    LET earlier(j) ==
            IF skills_result[j] # PyNone
               /\ IsList(Get(skills_result[j][2], "matchedSkills", PyNone))
            THEN skills_result[j][2]["matchedSkills"][2]
            ELSE <<>>
    IN  IF NotAllStr(user_skills) \/ NotAllStr(required_skills)
        THEN Raise("AttributeError")
        ELSE SkillsVerdict(
                earlier(1) \o earlier(2)
                    \o SkillsSorted(user_skills, required_skills, TRUE),
                SkillsSorted(user_skills, required_skills, FALSE),
                required_skills)

\* user_skills and required_skills are sequences of objects
fallback_skills_matching(user_skills, required_skills) ==
    IF NotAllStr(user_skills) \/ NotAllStr(required_skills)
    THEN Raise("AttributeError")
    ELSE SkillsVerdict(SkillsSorted(user_skills, required_skills, TRUE),
                       SkillsSorted(user_skills, required_skills, FALSE),
                       required_skills)

(***************************************************************************)
(* More of Python                                                          *)
(***************************************************************************)
\* v[key] for a str key
Subscript(v, key) ==
    IF IsRaise(v) THEN v
    ELSE IF IsDict(v)
    THEN (IF key \in DOMAIN v[2] THEN v[2][key] ELSE Raise("KeyError"))
    ELSE Raise("TypeError")

\* bool(v)
Truthy(v) ==
    CASE Tag(v) = "none" -> FALSE
      [] Tag(v) = "bool" -> v[2]
      [] IsNum(v) -> Mant(v) # 0
      [] IsDict(v) -> DOMAIN v[2] # {}
      [] OTHER -> Len(v[2]) > 0

\* len(v): an int, or TypeError
PyLen(v) ==
    CASE Tag(v) \in {"str", "list"} -> PyInt(Len(v[2]))
      [] IsDict(v) -> PyInt(Cardinality(DOMAIN v[2]))
      [] OTHER -> Raise("TypeError")

\* ', '.join(v): over the items of a list or the characters of a str
JoinAny(v) ==
    CASE IsList(v) -> Join(<<", ">>, v[2])
      [] IsStr(v) -> Join(<<", ">>, [i \in DOMAIN v[2] |-> PyStr(<<v[2][i]>>)])
      [] OTHER -> Raise("TypeError")

(***************************************************************************)
(* The oracle's response and its parsing                                   *)
(*                                                                         *)
(* A response is <<"exception">> (the request raised: transport error,     *)
(* timeout), <<"nocontent">> (a completion whose content is None) or       *)
(* <<"content", segs>>, the text as a sequence of segments: <<"text">>     *)
(* (prose without braces), <<"obj", d>> (one serialised JSON object d),    *)
(* <<"open">> and <<"close">> (a lone brace).                              *)
(***************************************************************************)
HasOpen(seg) == seg[1] \in {"obj", "open"}
HasClose(seg) == seg[1] \in {"obj", "close"}

\* content[start_idx:end_idx] with start_idx = content.find('{') and
\* end_idx = content.rfind('}') + 1, then json.loads of it: the object, or
\* ValueError (no opening brace; JSONDecodeError is a ValueError too)
ExtractJson(segs) ==
    LET opens == {k \in DOMAIN segs : HasOpen(segs[k])}
        closes == {k \in DOMAIN segs : HasClose(segs[k])}
    IN  IF opens = {} THEN Raise("ValueError")
        ELSE IF closes = {} THEN Raise("ValueError")
        ELSE LET start_idx == CHOOSE k \in opens : \A j \in opens : k <= j
                 end_idx == CHOOSE k \in closes : \A j \in closes : j <= k
             IN  IF start_idx = end_idx /\ segs[start_idx][1] = "obj"
                 THEN PyDict(segs[start_idx][2])
                 ELSE Raise("ValueError")

(***************************************************************************)
(* match_user_skills_with_required, the part after the response is parsed  *)
(***************************************************************************)
\* lines 85-104: the result built from the oracle's object
SkillsFromOracle(skills_obj, required_skills) ==
    LET matched_skills == Get(skills_obj[2], "matchedSkills", PyList(<<>>))
        missing_skills == Get(skills_obj[2], "missingSkills", PyList(<<>>))
        n == PyLen(matched_skills)
    IN  IF IsRaise(n) THEN n
        ELSE SkillsResult(
                SkillsStatus(n[2], Len(required_skills)),
                PyStr(SkillsMessage(n[2], Len(required_skills))),
                matched_skills, missing_skills)

\* the two tests in the other order: no user skills is looked at first
SkillsShortCircuitUsersFirst(user_skills, required_skills) ==
    IF Len(user_skills) = 0
    THEN SkillsResult(Fail,
            PyStr(SkillsMessage(0, Len(required_skills))),
            PyList(<<>>), PyList(required_skills))
    ELSE IF Len(required_skills) = 0
    THEN SkillsResult(Pass, PyStr(<<"No specific skills required">>),
                      PyList(<<>>), PyList(<<>>))
    ELSE PyNone

\* the second answer with the lists of the first: nothing reported missing
SkillsShortCircuitNoMissing(user_skills, required_skills) ==
    IF Len(required_skills) = 0
    THEN SkillsResult(Pass, PyStr(<<"No specific skills required">>),
                      PyList(<<>>), PyList(<<>>))
    ELSE IF Len(user_skills) = 0
    THEN SkillsResult(Fail,
            PyStr(SkillsMessage(0, Len(required_skills))),
            PyList(<<>>), PyList(<<>>))
    ELSE PyNone

\* lines 18-32: the two answers given without asking the oracle; PyNone when
\* neither applies
SkillsShortCircuit(user_skills, required_skills) ==
    IF Len(required_skills) = 0
    THEN SkillsResult(Pass, PyStr(<<"No specific skills required">>),
                      PyList(<<>>), PyList(<<>>))
    ELSE IF Len(user_skills) = 0
    THEN SkillsResult(Fail,
            PyStr(SkillsMessage(0, Len(required_skills))),
            PyList(<<>>), PyList(required_skills))
    ELSE PyNone

(***************************************************************************)
(* check_detailed_eligibility                                              *)
(***************************************************************************)
IsNamed(skill) == IsStr(skill) \/ (IsDict(skill) /\ "name" \in DOMAIN skill[2])

\* only the skills given as strings are kept
user_skill_names_of_strings(user_skills) == SelectSeq(user_skills, IsStr)

\* lines 344-349
user_skill_names(user_skills) ==
    LET named == SelectSeq(user_skills, IsNamed)
    IN  [k \in DOMAIN named |->
            IF IsStr(named[k]) THEN named[k] ELSE named[k][2]["name"]]

\* the two sources of minCGPA looked up the other way round
combined_criteria_first(criteria, eligibility) ==
    [minCGPA |-> Get(criteria, "cgpa", Get(eligibility, "minCGPA", PyFloat(0, 0))),
     branches |-> Get(eligibility, "branches", PyList(<<>>)),
     batch |-> Get(eligibility, "batch", PyList(<<>>)),
     backlogs |-> Get(criteria, "backlogs", PyInt(0))]

\* lines 352-357
combined_eligibility(criteria, eligibility) ==
    [minCGPA |-> Get(eligibility, "minCGPA", Get(criteria, "cgpa", PyFloat(0, 0))),
     branches |-> Get(eligibility, "branches", PyList(<<>>)),
     batch |-> Get(eligibility, "batch", PyList(<<>>)),
     backlogs |-> Get(criteria, "backlogs", PyInt(0))]

\* line 360
required_skills_of(criteria) == Get(criteria, "skills", PyList(<<>>))[2]

FailedCheck(text) == Criterion(Fail, <<text>>)

\* the breakdown as a copy of the oracle's object with the skills added
BreakdownCopied(ai, skills) ==
    With(ai[2], "skills", skills)

\* lines 369-375
Breakdown(ai, skills) ==
    [cgpa |-> Get(ai[2], "cgpa", FailedCheck("CGPA check failed")),
     backlogs |-> Get(ai[2], "backlogs", FailedCheck("Backlogs check failed")),
     course |-> Get(ai[2], "course", FailedCheck("Course check failed")),
     batch |-> Get(ai[2], "batch", FailedCheck("Batch check failed")),
     skills |-> skills]

\* line 378
BasicEligibility(ai) ==
    Get(ai[2], "overallEligible", PyBool(FALSE))

\* one `if breakdown[key]["status"] == "fail": recommendations.append(text)`:
\* the list of what it appends, or what it raises
FailEntry(breakdown, key, text) ==
    LET st == Subscript(Subscript(PyDict(breakdown), key), "status")
    IN  IF IsRaise(st) THEN st
        ELSE IF st # Fail THEN PyList(<<>>)
        ELSE IF IsRaise(text) THEN text
        ELSE PyList(<<text>>)

\* lines 403-409
SkillsEntry(skills, required_skills) ==
    LET st == skills[2]["status"]
        missing_skills == Get(skills[2], "missingSkills", PyList(<<>>))
        joined == JoinAny(missing_skills)
    IN  IF st = Fail /\ Len(required_skills) > 0
        THEN IF IsRaise(joined) THEN joined
             ELSE PyList(<<PyStr(<<"Consider developing skills in: ">> \o joined[2]
                                 \o <<" to strengthen your profile">>)>>)
        ELSE IF st = Partial /\ Truthy(missing_skills)
        THEN IF IsRaise(joined) THEN joined
             ELSE PyList(<<PyStr(<<"Consider developing additional skills in: ">>
                                 \o joined[2])>>)
        ELSE PyList(<<>>)

\* an else in the place of the elif: a third statement whatever the status
ClosingBlockThree(is_eligible, skills) ==
    LET st == skills[2]["status"]
    IN  IF Truthy(is_eligible)
        THEN <<PyStr(<<"You are eligible! Prepare well for the selection process">>),
               PyStr(<<"Review the job description and company information thoroughly">>)>>
             \o (IF st = Pass
                 THEN <<PyStr(<<"Your skills align well with the requirements">>)>>
                 ELSE <<PyStr(<<"You have some of the desired skills - highlight them in your application">>)>>)
        ELSE <<PyStr(<<"Focus on meeting the basic eligibility criteria before applying">>)>>

\* lines 412-420
ClosingBlock(is_eligible, skills) ==
    LET st == skills[2]["status"]
    IN  IF Truthy(is_eligible)
        THEN <<PyStr(<<"You are eligible! Prepare well for the selection process">>),
               PyStr(<<"Review the job description and company information thoroughly">>)>>
             \o (IF st = Pass
                 THEN <<PyStr(<<"Your skills align well with the requirements">>)>>
                 ELSE IF st = Partial
                 THEN <<PyStr(<<"You have some of the desired skills - highlight them in your application">>)>>
                 ELSE <<>>)
        ELSE <<PyStr(<<"Focus on meeting the basic eligibility criteria before applying">>)>>

\* the entries in the order of the keys of the requested answer: cgpa,
\* course, batch, backlogs
CriteriaEntriesAsAnswered(cgpa, backlogs, course, batch) ==
    cgpa \o course \o batch \o backlogs

\* lines 387-400: the four ifs append in this order
CriteriaEntries(cgpa, backlogs, course, batch) ==
    cgpa \o backlogs \o course \o batch

\* lines 385-420: the list, or what building it raises
Recommendations(breakdown, combined, skills, required_skills, is_eligible) ==
    LET text(prefix, joined, suffix) ==
            IF IsRaise(joined) THEN joined
            ELSE PyStr(<<prefix>> \o joined[2] \o <<suffix>>)
        r_cgpa == FailEntry(breakdown, "cgpa",
            PyStr(<<"Improve your CGPA to at least ">> \o str(combined.minCGPA)))
        r_backlogs == FailEntry(breakdown, "backlogs",
            PyStr(<<"Clear your active backlogs before applying">>))
        r_course == FailEntry(breakdown, "course",
            text("This opportunity is only for ",
                 Join(<<", ">>, combined.branches[2]), " branches"))
        r_batch == FailEntry(breakdown, "batch",
            text("This opportunity is only for ",
                 Join(<<", ">>, StrAll(combined.batch[2])), " batch"))
        r_skills == SkillsEntry(skills, required_skills)
    IN  IF IsRaise(r_cgpa) THEN r_cgpa
        ELSE IF IsRaise(r_backlogs) THEN r_backlogs
        ELSE IF IsRaise(r_course) THEN r_course
        ELSE IF IsRaise(r_batch) THEN r_batch
        ELSE IF IsRaise(r_skills) THEN r_skills
        ELSE PyList(CriteriaEntries(r_cgpa[2], r_backlogs[2], r_course[2],
                                    r_batch[2])
                    \o r_skills[2] \o ClosingBlock(is_eligible, skills))

\* lines 368-439: the response, or what building it raises
BuildResponse(user, criteria, eligibility, ai, skills) ==
    LET combined == combined_eligibility(criteria, eligibility)
        breakdown == Breakdown(ai, skills)
        is_eligible == BasicEligibility(ai)
        recommendations == Recommendations(breakdown, combined, skills,
                                required_skills_of(criteria), is_eligible)
    IN  IF IsRaise(recommendations) THEN recommendations
        ELSE PyDict([
            id |-> Get(user, "id", PyStr(<<>>)),
            name |-> Get(user, "name", PyStr(<<>>)),
            course |-> Get(user, "course", PyStr(<<>>)),
            stream |-> Get(user, "stream", PyStr(<<>>)),
            batch |-> Get(user, "batch", PyStr(<<>>)),
            institute |-> Get(user, "institute", PyStr(<<>>)),
            avg_cgpa |-> Get(user, "avg_cgpa", PyFloat(0, 0)),
            activeBacklogs |-> Get(user, "activeBacklogs", PyInt(0)),
            skillsCount |-> Get(user, "skillsCount", PyInt(0)),
            skills |-> Get(user, "skills", PyList(<<>>)),
            isEligible |-> is_eligible,
            breakdown |-> PyDict(breakdown),
            recommendations |-> recommendations])

(***************************************************************************)
(* Inputs: payloads                                                        *)
(***************************************************************************)
Absent == <<"absent">>

\* the dict of the fields of rec that are present
MkDict(rec) == [k \in {f \in DOMAIN rec : rec[f] # Absent} |-> rec[k]]

Python == PyStr(<<"P","y","t","h","o","n">>)
SQL == PyStr(<<"S","Q","L">>)
CSE == PyStr(<<"C","S","E">>)
Y2026 == PyStr(<<"2","0","2","6">>)

\* what each field of the payload may hold; the first is the field's value in
\* the base payload
FieldOptions ==
    [avg_cgpa |-> <<PyFloat(85, 1), PyFloat(6, 0), PyStr(<<"8",".","5","%">>)>>,
     stream |-> <<CSE, PyStr(<<"e","c","e">>)>>,
     batch |-> <<Y2026, PyInt(2026), PyStr(<<"2","0","2","5">>)>>,
     activeBacklogs |-> <<PyInt(0), PyInt(1), PyStr(<<"0">>)>>,
     skills |-> <<PyList(<<Python>>), PyList(<<>>),
                  PyList(<<PyDict([name |-> PyStr(<<"p","y">>),
                                   level |-> PyStr(<<"Advanced">>)]),
                           PyDict([name |-> SQL])>>),
                  PyList(<<PyStr(<<"J","a","v","a">>), PyInt(3)>>)>>,
     c_cgpa |-> <<PyFloat(9, 0), Absent, PyStr(<<"7",".","0","%">>)>>,
     c_backlogs |-> <<PyInt(0), Absent, PyStr(<<"0">>), PyNone>>,
     c_skills |-> <<PyList(<<Python, SQL>>), Absent, PyList(<<>>),
                    PyList(<<PyStr(<<"I","T">>)>>)>>,
     e_minCGPA |-> <<PyFloat(7, 0), PyStr(<<"7",".","5">>), Absent,
                     PyStr(<<>>), PyNone>>,
     e_branches |-> <<PyList(<<All>>), PyList(<<CSE>>),
                      PyList(<<PyStr(<<"c","s","e">>), PyStr(<<"I","T">>)>>),
                      Absent>>,
     e_batch |-> <<PyList(<<Y2026>>), PyList(<<PyInt(2026)>>), Absent>>]

Fields == DOMAIN FieldOptions

\* how many fields a payload may hold another value than the base payload's
MaxChanges == 1

\* the choices of one option per field that leave the base in at most max fields
Choices(max) ==
    UNION {{[f \in Fields |-> IF f \in changed THEN alt[f] ELSE 1] :
                alt \in {a \in [changed -> 2..5] :
                            \A f \in changed : a[f] <= Len(FieldOptions[f])}} :
            changed \in {fs \in SUBSET Fields : Cardinality(fs) <= max}}

\* {"user": {...}, "post": {"criteria": {...}, "eligibility": {...}}}
PayloadOf(c) ==
    LET v(f) == FieldOptions[f][c[f]]
    IN  [user |-> MkDict([id |-> PyStr(<<"test123">>),
                          name |-> PyStr(<<"Test Student">>),
                          avg_cgpa |-> v("avg_cgpa"), stream |-> v("stream"),
                          batch |-> v("batch"),
                          activeBacklogs |-> v("activeBacklogs"),
                          skills |-> v("skills")]),
         criteria |-> MkDict([cgpa |-> v("c_cgpa"), backlogs |-> v("c_backlogs"),
                              skills |-> v("c_skills")]),
         eligibility |-> MkDict([minCGPA |-> v("e_minCGPA"),
                                 branches |-> v("e_branches"),
                                 batch |-> v("e_batch")])]

\* sample_payload of src/test_eligibility_fixes.py
FixesPayload ==
    [user |-> [id |-> PyStr(<<"test123">>), name |-> PyStr(<<"Test Student">>),
               course |-> PyStr(<<"B.Tech">>), stream |-> CSE,
               batch |-> PyStr(<<"2","0","2","5">>),
               institute |-> PyStr(<<"Test Institute">>),
               avg_cgpa |-> PyStr(<<"8",".","5","%">>),
               activeBacklogs |-> PyStr(<<"0">>),
               skillsCount |-> PyInt(3),
               skills |-> PyList(<<Python,
                                   PyStr(<<"J","a","v","a","S","c","r","i","p","t">>),
                                   PyStr(<<"R","e","a","c","t">>)>>)],
     criteria |-> [cgpa |-> PyStr(<<"7",".","0","%">>),
                   backlogs |-> PyStr(<<"0">>),
                   skills |-> PyList(<<Python,
                                       PyStr(<<"J","a","v","a","S","c","r","i","p","t">>),
                                       PyStr(<<"J","a","v","a">>)>>)],
     eligibility |-> [minCGPA |-> PyStr(<<"7",".","5">>),
                      branches |-> PyList(<<CSE, PyStr(<<"I","T">>)>>),
                      batch |-> PyList(<<PyStr(<<"2","0","2","5">>), Y2026>>)]]

Payloads == {PayloadOf(c) : c \in Choices(MaxChanges)} \cup {FixesPayload}

NoPayload == [user |-> <<>>, criteria |-> <<>>, eligibility |-> <<>>]

(***************************************************************************)
(* Inputs: what the oracle may answer                                      *)
(***************************************************************************)
BundleKeys == {"cgpa", "course", "batch", "backlogs"}

Explained(status) == Criterion(status, <<"detailed explanation">>)

\* the answers of the requested shape
WellFormedAnswers ==
    {[cgpa |-> Explained(a), course |-> Explained(b), batch |-> Explained(c),
      backlogs |-> Explained(d), overallEligible |-> PyBool(e)] :
        a \in {Pass, Fail}, b \in {Pass, Fail}, c \in {Pass, Fail},
        d \in {Pass, Fail}, e \in BOOLEAN}

AllPassAnswer ==
    [cgpa |-> Explained(Pass), course |-> Explained(Pass),
     batch |-> Explained(Pass), backlogs |-> Explained(Pass),
     overallEligible |-> PyBool(TRUE)]

\* values that are no CriterionResult
MalformedValues ==
    {Explained(PyStr(<<"maybe">>)),
     PyDict([message |-> PyStr(<<"detailed explanation">>)]),
     PyDict([status |-> Pass]),
     Pass,
     PyNone}

\* JSON objects of another shape: a key missing, a value malformed, a key added
DefectiveAnswers ==
    {Without(AllPassAnswer, k) : k \in BundleKeys \cup {"overallEligible"}}
    \cup {With(AllPassAnswer, k, v) : k \in BundleKeys, v \in MalformedValues}
    \cup {With(AllPassAnswer, "overallEligible", PyStr(<<"yes">>)),
          With(AllPassAnswer, "confidence", PyFloat(9, 1)),
          <<>>}

Text == <<"text">>
Obj(d) == <<"obj", d>>

\* the texts around one object d that the extraction treats differently
Wrappings(d) ==
    {<<Obj(d)>>, <<Text, Obj(d), Text>>, <<Obj(d), Text, <<"close">>>>,
     <<Obj(d), Text, Obj(d)>>}

UnparseableTexts == {<<>>, <<Text>>, <<Text, <<"open">>, Text>>, <<<<"close">>, Text>>}

Exception == <<"exception">>
NoContent == <<"nocontent">>
Content(segs) == <<"content", segs>>
NotAsked == <<"notasked">>

BundleResponses ==
    {Exception, NoContent}
    \cup {Content(t) : t \in UnparseableTexts}
    \cup {Content(t) : t \in Wrappings(AllPassAnswer)}
    \cup {Content(<<Obj(d)>>) : d \in WellFormedAnswers \cup DefectiveAnswers}

\* the sub-lists of a list, as (kept, dropped) pairs
Splits(xs) ==
    {<<SelectSeq(xs, LAMBDA x : x \in keep), SelectSeq(xs, LAMBDA x : x \notin keep)>> :
        keep \in SUBSET {xs[k] : k \in DOMAIN xs}}

\* answers to the skills request for these required skills
SkillsAnswers(required_skills) ==
    {[matchedSkills |-> PyList(sp[1]), missingSkills |-> PyList(sp[2])] :
        sp \in Splits(required_skills)}
    \cup {[matchedSkills |-> PyList(<<PyStr(<<"R","e","a","c","t">>)>>),
           missingSkills |-> PyList(<<>>)],
          [matchedSkills |-> PyList(required_skills),
           missingSkills |-> PyList(required_skills)],
          [matchedSkills |-> PyList(required_skills \o required_skills),
           missingSkills |-> PyList(<<>>)],
          [matchedSkills |-> PyList(<<>>)],
          [matchedSkills |-> PyNone, missingSkills |-> PyList(<<>>)],
          [matchedSkills |-> PyList(<<>>), missingSkills |-> PyList(<<PyInt(1)>>)],
          [matchedSkills |-> PyList(<<>>), missingSkills |-> PyNone],
          <<>>}

SkillsResponses(required_skills) ==
    {Exception, NoContent, Content(<<Text>>)}
    \cup {Content(<<Obj(d)>>) : d \in SkillsAnswers(required_skills)}
    \cup {Content(<<Text, Obj(d), Text, <<"close">>>>) :
            d \in {[matchedSkills |-> PyList(required_skills),
                    missingSkills |-> PyList(<<>>)]}}

(***************************************************************************)
(* The invocations                                                         *)
(***************************************************************************)
Procs == {1, 2}

\* the locals of invocation i that the code derives from the payload
UserOf(i) == payload[i].user
CombinedOf(i) == combined_eligibility(payload[i].criteria, payload[i].eligibility)
RequiredOf(i) == required_skills_of(payload[i].criteria)
SkillNamesOf(i) == user_skill_names(Get(UserOf(i), "skills", PyList(<<>>))[2])

Init ==
    /\ pc = [i \in Procs |-> "idle"]
    /\ payload = [i \in Procs |-> NoPayload]
    /\ bundle_resp = [i \in Procs |-> NotAsked]
    /\ skills_resp = [i \in Procs |-> NotAsked]
    /\ ai_eligibility = [i \in Procs |-> PyNone]
    /\ skills_result = [i \in Procs |-> PyNone]
    /\ outcome = [i \in Procs |-> PyNone]
    /\ requests = [i \in Procs |-> [bundle |-> 0, skills |-> 0]]
    /\ fallbacks = [i \in Procs |-> [bundle |-> 0, skills |-> 0]]

\* check_detailed_eligibility(payload) is called (lines 326-360)
Invoke(i, inputs) ==
    /\ pc[i] = "idle"
    /\ \E p \in inputs : payload' = [payload EXCEPT ![i] = p]
    /\ pc' = [pc EXCEPT ![i] = "ai_client"]
    /\ UNCHANGED <<bundle_resp, skills_resp, ai_eligibility, skills_result,
                   outcome, requests, fallbacks>>

\* check_eligibility_with_ai, line 199: the client is constructed, outside any
\* try; when that raises the exception leaves check_detailed_eligibility
AiClient(i) ==
    /\ pc[i] = "ai_client"
    /\ \E constructed \in BOOLEAN :
        IF constructed
        THEN pc' = [pc EXCEPT ![i] = "ai_request"] /\ outcome' = outcome
        ELSE /\ pc' = [pc EXCEPT ![i] = "raised"]
             /\ outcome' = [outcome EXCEPT ![i] = Raise("GroqError")]
    /\ UNCHANGED <<payload, bundle_resp, skills_resp, ai_eligibility,
                   skills_result, requests, fallbacks>>

\* a request that failed or could not be parsed is sent once more
AiRequestRetry(i, responses) ==
    /\ pc[i] = "ai_request"
    /\ \E r \in responses :
        /\ bundle_resp' = [bundle_resp EXCEPT ![i] = r]
        /\ IF r[1] = "content" /\ ~IsRaise(ExtractJson(r[2]))
           THEN /\ pc' = [pc EXCEPT ![i] = "sk_start"]
                /\ ai_eligibility' = [ai_eligibility EXCEPT ![i] = ExtractJson(r[2])]
           ELSE /\ pc' = [pc EXCEPT ![i] =
                              IF requests[i].bundle = 0 THEN "ai_request"
                              ELSE IF r[1] = "content" THEN "ai_inner"
                              ELSE "ai_outer"]
                /\ ai_eligibility' = ai_eligibility
    /\ requests' = [requests EXCEPT ![i].bundle = @ + 1]
    /\ UNCHANGED <<payload, skills_resp, skills_result, outcome, fallbacks>>

\* lines 246-270: the request, and the extraction of the JSON object
AiRequest(i, responses) ==
    /\ pc[i] = "ai_request"
    /\ \E r \in responses :
        /\ bundle_resp' = [bundle_resp EXCEPT ![i] = r]
        /\ IF r[1] = "content"
           THEN LET result == ExtractJson(r[2])
                IN  IF IsRaise(result)
                    THEN /\ pc' = [pc EXCEPT ![i] = "ai_inner"]
                         /\ ai_eligibility' = ai_eligibility
                    ELSE /\ pc' = [pc EXCEPT ![i] = "sk_start"]
                         /\ ai_eligibility' = [ai_eligibility EXCEPT ![i] = result]
           ELSE /\ pc' = [pc EXCEPT ![i] = "ai_outer"]
                /\ ai_eligibility' = ai_eligibility
    /\ requests' = [requests EXCEPT ![i].bundle = @ + 1]
    /\ UNCHANGED <<payload, skills_resp, skills_result, outcome, fallbacks>>

\* lines 272-275: the handler of the parse error; what the fallback raises
\* there is caught by the enclosing try (line 277)
AiInnerFallback(i) ==
    /\ pc[i] = "ai_inner"
    /\ LET result == manual_eligibility_check(UserOf(i), CombinedOf(i))
       IN  IF IsRaise(result)
           THEN /\ pc' = [pc EXCEPT ![i] = "ai_outer"]
                /\ ai_eligibility' = ai_eligibility
           ELSE /\ pc' = [pc EXCEPT ![i] = "sk_start"]
                /\ ai_eligibility' = [ai_eligibility EXCEPT ![i] = result]
    /\ fallbacks' = [fallbacks EXCEPT ![i].bundle = @ + 1]
    /\ UNCHANGED <<payload, bundle_resp, skills_resp, skills_result, outcome,
                   requests>>

\* lines 277-280: the handler of every other exception; what the fallback
\* raises here leaves check_detailed_eligibility
AiOuterFallback(i) ==
    /\ pc[i] = "ai_outer"
    /\ LET result == manual_eligibility_check(UserOf(i), CombinedOf(i))
       IN  IF IsRaise(result)
           THEN /\ pc' = [pc EXCEPT ![i] = "raised"]
                /\ outcome' = [outcome EXCEPT ![i] = result]
                /\ ai_eligibility' = ai_eligibility
           ELSE /\ pc' = [pc EXCEPT ![i] = "sk_start"]
                /\ outcome' = outcome
                /\ ai_eligibility' = [ai_eligibility EXCEPT ![i] = result]
    /\ fallbacks' = [fallbacks EXCEPT ![i].bundle = @ + 1]
    /\ UNCHANGED <<payload, bundle_resp, skills_resp, skills_result, requests>>

\* match_user_skills_with_required, lines 18-32
SkStart(i) ==
    /\ pc[i] = "sk_start"
    /\ LET result == SkillsShortCircuit(SkillNamesOf(i), RequiredOf(i))
       IN  IF result = PyNone
           THEN /\ pc' = [pc EXCEPT ![i] = "sk_client"]
                /\ skills_result' = skills_result
           ELSE /\ pc' = [pc EXCEPT ![i] = "combine"]
                /\ skills_result' = [skills_result EXCEPT ![i] = result]
    /\ UNCHANGED <<payload, bundle_resp, skills_resp, ai_eligibility, outcome,
                   requests, fallbacks>>

\* lines 34-37: the client and the two joins, outside any try
SkClient(i) ==
    /\ pc[i] = "sk_client"
    /\ \E constructed \in BOOLEAN :
        LET user_skills_str == Join(<<", ">>, SkillNamesOf(i))
            required_skills_str == Join(<<", ">>, RequiredOf(i))
        IN  IF ~constructed
            THEN /\ pc' = [pc EXCEPT ![i] = "raised"]
                 /\ outcome' = [outcome EXCEPT ![i] = Raise("GroqError")]
            ELSE IF IsRaise(user_skills_str) \/ IsRaise(required_skills_str)
            THEN /\ pc' = [pc EXCEPT ![i] = "raised"]
                 /\ outcome' = [outcome EXCEPT ![i] = Raise("TypeError")]
            ELSE pc' = [pc EXCEPT ![i] = "sk_request"] /\ outcome' = outcome
    /\ UNCHANGED <<payload, bundle_resp, skills_resp, ai_eligibility,
                   skills_result, requests, fallbacks>>

\* lines 62-106: the request, the extraction and the result built from it
SkRequest(i, responses) ==
    /\ pc[i] = "sk_request"
    /\ \E r \in responses :
        /\ skills_resp' = [skills_resp EXCEPT ![i] = r]
        /\ IF r[1] = "content"
           THEN LET parsed == ExtractJson(r[2])
                    result == SkillsFromOracle(parsed, RequiredOf(i))
                IN  IF IsRaise(parsed)
                    THEN /\ pc' = [pc EXCEPT ![i] = "sk_inner"]
                         /\ skills_result' = skills_result
                    ELSE IF IsRaise(result)
                    THEN /\ pc' = [pc EXCEPT ![i] = "sk_outer"]
                         /\ skills_result' = skills_result
                    ELSE /\ pc' = [pc EXCEPT ![i] = "combine"]
                         /\ skills_result' = [skills_result EXCEPT ![i] = result]
           ELSE /\ pc' = [pc EXCEPT ![i] = "sk_outer"]
                /\ skills_result' = skills_result
    /\ requests' = [requests EXCEPT ![i].skills = @ + 1]
    /\ UNCHANGED <<payload, bundle_resp, ai_eligibility, outcome, fallbacks>>

\* lines 108-111
SkInnerFallback(i) ==
    /\ pc[i] = "sk_inner"
    /\ LET result == fallback_skills_matching(SkillNamesOf(i), RequiredOf(i))
       IN  IF IsRaise(result)
           THEN /\ pc' = [pc EXCEPT ![i] = "sk_outer"]
                /\ skills_result' = skills_result
           ELSE /\ pc' = [pc EXCEPT ![i] = "combine"]
                /\ skills_result' = [skills_result EXCEPT ![i] = result]
    /\ fallbacks' = [fallbacks EXCEPT ![i].skills = @ + 1]
    /\ UNCHANGED <<payload, bundle_resp, skills_resp, ai_eligibility, outcome,
                   requests>>

\* the result kept in one place for all invocations instead of a local
SkOuterFallbackShared(i) ==
    /\ pc[i] = "sk_outer"
    /\ LET result == fallback_skills_matching(SkillNamesOf(i), RequiredOf(i))
       IN  IF IsRaise(result)
           THEN /\ pc' = [pc EXCEPT ![i] = "raised"]
                /\ outcome' = [outcome EXCEPT ![i] = result]
                /\ skills_result' = skills_result
           ELSE /\ pc' = [pc EXCEPT ![i] = "combine"]
                /\ outcome' = outcome
                /\ skills_result' = [j \in Procs |-> result]
    /\ fallbacks' = [fallbacks EXCEPT ![i].skills = @ + 1]
    /\ UNCHANGED <<payload, bundle_resp, skills_resp, ai_eligibility, requests>>

\* lines 113-116
SkOuterFallback(i) ==
    /\ pc[i] = "sk_outer"
    /\ LET result == fallback_skills_matching(SkillNamesOf(i), RequiredOf(i))
       IN  IF IsRaise(result)
           THEN /\ pc' = [pc EXCEPT ![i] = "raised"]
                /\ outcome' = [outcome EXCEPT ![i] = result]
                /\ skills_result' = skills_result
           ELSE /\ pc' = [pc EXCEPT ![i] = "combine"]
                /\ outcome' = outcome
                /\ skills_result' = [skills_result EXCEPT ![i] = result]
    /\ fallbacks' = [fallbacks EXCEPT ![i].skills = @ + 1]
    /\ UNCHANGED <<payload, bundle_resp, skills_resp, ai_eligibility, requests>>

\* lines 368-439: the breakdown, the recommendations and the response
Combine(i) ==
    /\ pc[i] = "combine"
    /\ LET response == BuildResponse(UserOf(i), payload[i].criteria,
                           payload[i].eligibility, ai_eligibility[i],
                           skills_result[i])
       IN  /\ outcome' = [outcome EXCEPT ![i] = response]
           /\ pc' = [pc EXCEPT ![i] = IF IsRaise(response) THEN "raised" ELSE "done"]
    /\ UNCHANGED <<payload, bundle_resp, skills_resp, ai_eligibility,
                   skills_result, requests, fallbacks>>

\* one invocation, every payload and every oracle behaviour of the bounds
Next ==
    \/ Invoke(1, Payloads)
    \/ AiClient(1)
    \/ AiRequest(1, BundleResponses)
    \/ AiInnerFallback(1)
    \/ AiOuterFallback(1)
    \/ SkStart(1)
    \/ SkClient(1)
    \/ SkRequest(1, SkillsResponses(RequiredOf(1)))
    \/ SkInnerFallback(1)
    \/ SkOuterFallback(1)
    \/ Combine(1)

Spec == Init /\ [][Next]_vars

(***************************************************************************)
(* Properties of one invocation (specification Spec)                       *)
(***************************************************************************)
Returned(i) == pc[i] = "done"
Report(i) == outcome[i][2]
BreakdownOf(i) == Report(i).breakdown[2]
StatusOf(i, key) == Subscript(BreakdownOf(i)[key], "status")
LocalResult(i) == manual_eligibility_check(UserOf(i), CombinedOf(i))

\* the payload has the types of the data model: numbers for the CGPAs, ints
\* for the backlog counts, str or int batches, lists of str
NumberOrAbsent(d, k) == k \in DOMAIN d => IsNum(d[k])
IntOrAbsent(d, k) == k \in DOMAIN d => Tag(d[k]) = "int"
ListOf(d, k, ok(_)) ==
    k \in DOMAIN d => IsList(d[k]) /\ \A n \in DOMAIN d[k][2] : ok(d[k][2][n])
IsSkill(x) == IsStr(x) \/ (IsDict(x) /\ "name" \in DOMAIN x[2] /\ IsStr(x[2]["name"]))
IsBatch(x) == IsStr(x) \/ Tag(x) = "int"
WellTyped(p) ==
    /\ NumberOrAbsent(p.user, "avg_cgpa")
    /\ IntOrAbsent(p.user, "activeBacklogs")
    /\ "stream" \in DOMAIN p.user => IsStr(p.user["stream"])
    /\ "batch" \in DOMAIN p.user => IsBatch(p.user["batch"])
    /\ ListOf(p.user, "skills", IsSkill)
    /\ NumberOrAbsent(p.criteria, "cgpa")
    /\ IntOrAbsent(p.criteria, "backlogs")
    /\ ListOf(p.criteria, "skills", IsStr)
    /\ NumberOrAbsent(p.eligibility, "minCGPA")
    /\ ListOf(p.eligibility, "branches", IsStr)
    /\ ListOf(p.eligibility, "batch", IsBatch)

ReportKeys ==
    {"id", "name", "course", "stream", "batch", "institute", "isEligible",
     "breakdown", "recommendations"}

\* the exception came from constructing the client, not from an answer
ClientFailed(i) == outcome[i] = Raise("GroqError")

\* C1: for a well-typed payload and whatever the oracle answers to either
\* request, check_detailed_eligibility returns a complete report and never
\* raises.
C1_AlwaysAnswers ==
    /\ pc[1] = "raised" => ~WellTyped(payload[1]) \/ ClientFailed(1)
    /\ Returned(1) => IsDict(outcome[1]) /\ ReportKeys \subseteq DOMAIN Report(1)

\* C2: in every returned report isEligible is a bool that is true exactly when
\* the cgpa, course, batch and backlogs entries of its breakdown all pass.
C2_EligibleIffFourPass ==
    Returned(1) =>
        /\ Tag(Report(1).isEligible) = "bool"
        /\ Report(1).isEligible = PyBool(\A k \in BundleKeys : StatusOf(1, k) = Pass)

\* the items of a list, as a set
Items(v) == {v[2][n] : n \in DOMAIN v[2]}

\* C4: in every skills result matchedSkills and missingSkills partition
\* requiredSkills: their union is requiredSkills and they are disjoint.
C4_SkillsPartition ==
    skills_result[1] # PyNone =>
        LET matched == Get(skills_result[1][2], "matchedSkills", PyNone)
            missing == Get(skills_result[1][2], "missingSkills", PyNone)
        IN  /\ IsList(matched) /\ IsList(missing)
            /\ Items(matched) \cup Items(missing) = Items(PyList(RequiredOf(1)))
            /\ Items(matched) \cap Items(missing) = {}

\* the four-criterion request failed: it raised, or the text held no JSON
\* object, or the object lacks one of the five required keys
BundleFailed(r) ==
    \/ r \in {Exception, NoContent}
    \/ /\ r[1] = "content"
       /\ LET parsed == ExtractJson(r[2])
          IN  \/ IsRaise(parsed)
              \/ ~(BundleKeys \cup {"overallEligible"} \subseteq DOMAIN parsed[2])

\* C5: when the four-criterion request failed, a returned report holds exactly
\* the four results of manual_eligibility_check.
C5_FailedOracleMeansLocal ==
    Returned(1) /\ WellTyped(payload[1]) /\ BundleFailed(bundle_resp[1]) =>
        \A k \in BundleKeys : BreakdownOf(1)[k] = Subscript(LocalResult(1), k)

\* C6: the breakdown of every returned report has exactly the five keys cgpa,
\* course, batch, backlogs and skills.
C6_FiveKeys ==
    Returned(1) => DOMAIN BreakdownOf(1) = BundleKeys \cup {"skills"}

\* a report built from an oracle object with a missing or an added key
C6_Witness ==
    /\ Returned(1)
    /\ bundle_resp[1][1] = "content"
    /\ ~IsRaise(ExtractJson(bundle_resp[1][2]))
    /\ DOMAIN ai_eligibility[1][2] # BundleKeys \cup {"overallEligible"}

\* C7: in every returned report the four criterion entries are dicts with a
\* status of pass or fail and a message, and the skills status is pass,
\* partial or fail.
C7_WellFormedEntries ==
    Returned(1) =>
        /\ \A k \in BundleKeys :
            /\ IsDict(BreakdownOf(1)[k])
            /\ StatusOf(1, k) \in {Pass, Fail}
            /\ "message" \in DOMAIN BreakdownOf(1)[k][2]
        /\ StatusOf(1, "skills") \in {Pass, Partial, Fail}

(***************************************************************************)
(* The numeric normalizer the tests import (safe_float_conversion): not    *)
(* defined by the code; stated here as the tests state it                  *)
(***************************************************************************)
\* the end of the run of digits of t that starts at i
RECURSIVE DigitsEnd(_, _)
DigitsEnd(t, i) ==
    IF i < Len(t) /\ IsDigit(t[i + 1]) THEN DigitsEnd(t, i + 1) ELSE i

\* the first decimal number of the text t, or 0.0 when it holds none
FirstNumber(t) ==
    LET starts == {i \in DOMAIN t : IsDigit(t[i])}
    IN  IF starts = {} THEN PyFloat(0, 0)
        ELSE LET a == CHOOSE i \in starts : \A j \in starts : i <= j
                 b == DigitsEnd(t, a)
                 fraction == b + 2 <= Len(t) /\ t[b + 1] = "." /\ IsDigit(t[b + 2])
                 c == IF fraction THEN DigitsEnd(t, b + 2) ELSE b
             IN  PyFloat(NatOf(SubSeq(t, a, b)
                               \o (IF fraction THEN SubSeq(t, b + 2, c) ELSE <<>>)),
                         IF fraction THEN c - b - 1 ELSE 0)

\* a number as a float, the first number of a str with a comma read as the
\* decimal point, 0.0 for anything else
toNumber(v) ==
    IF IsNum(v) THEN PyFloat(Mant(v), Expo(v))
    ELSE IF IsStr(v)
    THEN FirstNumber([i \in DOMAIN v[2] |-> IF v[2][i] = "," THEN "." ELSE v[2][i]])
    ELSE PyFloat(0, 0)

\* a percent-string or comma-decimal string, and a numeric string
IsLooseCgpa(v) ==
    /\ IsStr(v)
    /\ \E i \in DOMAIN v[2] : IsDigit(v[2][i])
    /\ \E i \in DOMAIN v[2] : v[2][i] \in {"%", ","}
IsNumericStr(v) == IsStr(v) /\ v[2] # <<>> /\ \A i \in DOMAIN v[2] : IsDigit(v[2][i])

LooseNumbers(p) ==
    /\ \/ IsLooseCgpa(Get(p.user, "avg_cgpa", PyNone))
       \/ IsLooseCgpa(Get(p.criteria, "cgpa", PyNone))
       \/ IsLooseCgpa(Get(p.eligibility, "minCGPA", PyNone))
    /\ \/ IsNumericStr(Get(p.user, "activeBacklogs", PyNone))
       \/ IsNumericStr(Get(p.criteria, "backlogs", PyNone))

\* pass when a <= b for the normalized numbers, else fail
NormalizedStatus(a, b) ==
    IF NumLeq(toNumber(a), toNumber(b)) THEN Pass ELSE Fail

\* C8: for a payload with a percent-string or comma-decimal CGPA and a
\* numeric-string backlog count, check_detailed_eligibility does not raise,
\* with or without a working oracle, and the cgpa and backlogs statuses the
\* local rules give are those of the normalized numbers.
C8_LooseNumbersAccepted ==
    LooseNumbers(payload[1]) =>
        /\ pc[1] = "raised" => ClientFailed(1)
        /\ Returned(1) /\ fallbacks[1].bundle > 0 =>
            /\ StatusOf(1, "cgpa")
                = NormalizedStatus(CombinedOf(1).minCGPA,
                                   Get(UserOf(1), "avg_cgpa", PyInt(0)))
            /\ StatusOf(1, "backlogs")
                = NormalizedStatus(Get(UserOf(1), "activeBacklogs", PyInt(0)),
                                   CombinedOf(1).backlogs)

(***************************************************************************)
(* The numeric coercion of manual_eligibility_check on its own             *)
(* (specification SpecNum)                                                 *)
(***************************************************************************)
\* the longest text drawn for minCGPA
MaxLen == 3

NumChars == {"7", "5", ".", ",", "%", " "}

\* the texts of at most n characters
Texts(n) == UNION {[1..k -> NumChars] : k \in 0..n}

\* the inputs of test_safe_float_conversion
TestInputs ==
    {PyStr(<<"7",".","5">>), PyStr(<<"8",".","0","%">>), PyStr(<<"6","0","%">>),
     PyStr(<<"7",",","5">>), PyStr(<<>>), PyNone, PyFloat(85, 1), PyInt(10),
     PyStr(<<"i","n","v","a","l","i","d">>),
     PyStr(<<"8",".","5"," ","C","G","P","A">>)}

NumInputs == {PyStr(t) : t \in Texts(MaxLen)} \cup TestInputs \cup {Absent}

\* the criteria manual_eligibility_check is called with, minCGPA being x
NumInit ==
    /\ pc = [i \in Procs |-> IF i = 1 THEN "coerce" ELSE "idle"]
    /\ \E x \in NumInputs :
        payload = [i \in Procs |->
            IF i = 1
            THEN [user |-> <<>>, criteria |-> <<>>,
                  eligibility |-> MkDict([minCGPA |-> x])]
            ELSE NoPayload]
    /\ bundle_resp = [i \in Procs |-> NotAsked]
    /\ skills_resp = [i \in Procs |-> NotAsked]
    /\ ai_eligibility = [i \in Procs |-> PyNone]
    /\ skills_result = [i \in Procs |-> PyNone]
    /\ outcome = [i \in Procs |-> PyNone]
    /\ requests = [i \in Procs |-> [bundle |-> 0, skills |-> 0]]
    /\ fallbacks = [i \in Procs |-> [bundle |-> 0, skills |-> 0]]

\* line 291: min_cgpa = float(eligibility_criteria.get('minCGPA', 0.0))
CoerceMinCgpa(i) ==
    /\ pc[i] = "coerce"
    /\ LET min_cgpa == float(Get(payload[i].eligibility, "minCGPA", PyFloat(0, 0)))
       IN  /\ outcome' = [outcome EXCEPT ![i] = min_cgpa]
           /\ pc' = [pc EXCEPT ![i] = IF IsRaise(min_cgpa) THEN "raised"
                                      ELSE "coerced"]
    /\ UNCHANGED <<payload, bundle_resp, skills_resp, ai_eligibility,
                   skills_result, requests, fallbacks>>

NextNum == CoerceMinCgpa(1)

SpecNum == NumInit /\ [][NextNum]_vars

\* C9: the coercion of a numeric input is total and gives the number as a
\* float, the first decimal number of a str ("8.0%" gives 8.0, "7,5" gives
\* 7.5), and 0.0 for null, the empty string and text without a number.
C9_TotalNormalizer ==
    pc[1] \in {"coerced", "raised"} =>
        outcome[1] = toNumber(Get(payload[1].eligibility, "minCGPA", PyNone))

(***************************************************************************)
(* Two invocations side by side (specification SpecPair)                   *)
(***************************************************************************)
\* the payload whose field f holds its n-th option, the others the base's
Changed(f, n) == PayloadOf([g \in Fields |-> IF g = f THEN n ELSE 1])

\* payloads that differ in the skills, in the criteria and in their types
PairPayloads ==
    {Changed("skills", 1), Changed("skills", 3), Changed("c_skills", 4),
     Changed("avg_cgpa", 2)}

\* the request raises, the text holds no object, the answer that all pass,
\* and an answer whose four statuses pass while its overallEligible is false
PairBundleResponses ==
    {Exception, Content(<<Text>>), Content(<<Obj(AllPassAnswer)>>),
     Content(<<Obj(With(AllPassAnswer, "overallEligible", PyBool(FALSE)))>>)}

PairSkillsResponses(required_skills) ==
    {Exception, Content(<<Text>>),
     Content(<<Obj([matchedSkills |-> PyList(required_skills),
                    missingSkills |-> PyList(<<>>)])>>)}

NextPair ==
    \E i \in Procs :
        \/ Invoke(i, PairPayloads)
        \/ AiClient(i)
        \/ AiRequest(i, PairBundleResponses)
        \/ AiInnerFallback(i)
        \/ AiOuterFallback(i)
        \/ SkStart(i)
        \/ SkClient(i)
        \/ SkRequest(i, PairSkillsResponses(RequiredOf(i)))
        \/ SkInnerFallback(i)
        \/ SkOuterFallback(i)
        \/ Combine(i)

SpecPair == Init /\ [][NextPair]_vars

Finished(i) == pc[i] \in {"done", "raised"}

\* what the payload holds besides the candidate's skills and requiredSkills
NonSkill(p) ==
    [user |-> Without(p.user, "skills"),
     criteria |-> Without(p.criteria, "skills"),
     eligibility |-> p.eligibility]

\* C3: two invocations that agree on the non-skill fields, on the criteria
\* and on the answer to the four-criterion request return the same isEligible,
\* whatever the skills and the skill answers; and a candidate whose four
\* criteria pass and who has only some of the required skills is eligible,
\* with skills status partial.
C3_SkillsNeverGate ==
    /\ Returned(1) /\ Returned(2)
       /\ NonSkill(payload[1]) = NonSkill(payload[2])
       /\ bundle_resp[1] = bundle_resp[2]
       => Report(1).isEligible = Report(2).isEligible
    /\ \A i \in Procs :
        Returned(i)
        /\ (\A k \in BundleKeys : StatusOf(i, k) = Pass)
        /\ IsList(Get(skills_result[i][2], "matchedSkills", PyNone))
        /\ Len(skills_result[i][2]["matchedSkills"][2]) \in
                (1 .. (Len(RequiredOf(i)) - 1))
        => /\ Report(i).isEligible = PyBool(TRUE)
           /\ StatusOf(i, "skills") = Partial

\* C10: two invocations with the same payload and the same oracle behaviour
\* on both requests end alike: the same report, or the same exception.
C10_SameInputsSameReport ==
    Finished(1) /\ Finished(2)
    /\ payload[1] = payload[2]
    /\ bundle_resp[1] = bundle_resp[2]
    /\ skills_resp[1] = skills_resp[2]
    => outcome[1] = outcome[2]

\* both invocations returned a report for the same payload with the oracle
\* failing on every request, the local matcher having matched a skill
C10_Witness ==
    /\ Returned(1) /\ Returned(2)
    /\ payload[1] = payload[2]
    /\ bundle_resp[1] = Exception /\ bundle_resp[2] = Exception
    /\ skills_resp[1] = Exception /\ skills_resp[2] = Exception
    /\ fallbacks[1].skills > 0 /\ fallbacks[2].skills > 0
    /\ BreakdownOf(1)["skills"][2]["matchedSkills"] # PyList(<<>>)

(***************************************************************************)
(* The local rules on their own: the handler of a failed request runs      *)
(* manual_eligibility_check (specification SpecLocal)                      *)
(***************************************************************************)
\* the largest number of active backlogs drawn
MaxBacklogs == 2

\* a payload of these values; Absent leaves the key out
LocalPayload(cgpa, floor, active, allowed, stream, branches, batch, batches) ==
    [user |-> MkDict([id |-> PyStr(<<"test123">>),
                      name |-> PyStr(<<"Test Student">>),
                      avg_cgpa |-> cgpa, stream |-> stream, batch |-> batch,
                      activeBacklogs |-> active,
                      skills |-> PyList(<<Python>>)]),
     criteria |-> MkDict([backlogs |-> allowed,
                          skills |-> PyList(<<Python, SQL>>)]),
     eligibility |-> MkDict([minCGPA |-> floor, branches |-> branches,
                             batch |-> batches])]

Y2025 == PyStr(<<"2","0","2","5">>)

LocalPayloads ==
    {LocalPayload(a, m, b, x, s, br, y, ys) :
        a \in {PyFloat(6, 0), PyFloat(7, 0), PyFloat(85, 1), PyInt(7)},
        m \in {PyFloat(7, 0), PyStr(<<"7",".","5">>), Absent, PyNone, PyStr(<<>>)},
        b \in {PyInt(n) : n \in 0..MaxBacklogs},
        x \in {PyInt(n) : n \in 0..(MaxBacklogs - 1)} \cup {Absent, PyNone},
        s \in {CSE, PyStr(<<"c","s","e">>), PyStr(<<"E","C","E">>)},
        br \in {PyList(<<All>>), PyList(<<CSE>>),
                PyList(<<PyStr(<<"c","s","e">>), PyStr(<<"I","T">>)>>),
                PyList(<<>>)},
        y \in {Y2026, PyInt(2026), Y2025},
        ys \in {PyList(<<Y2026>>), PyList(<<PyInt(2026)>>),
                PyList(<<PyInt(2025), Y2026>>)}}

\* the four-criterion request of invocation 1 has raised (line 277)
LocalInit ==
    /\ pc = [i \in Procs |-> IF i = 1 THEN "ai_outer" ELSE "idle"]
    /\ \E p \in LocalPayloads :
        payload = [i \in Procs |-> IF i = 1 THEN p ELSE NoPayload]
    /\ bundle_resp = [i \in Procs |-> IF i = 1 THEN Exception ELSE NotAsked]
    /\ skills_resp = [i \in Procs |-> NotAsked]
    /\ ai_eligibility = [i \in Procs |-> PyNone]
    /\ skills_result = [i \in Procs |-> PyNone]
    /\ outcome = [i \in Procs |-> PyNone]
    /\ requests = [i \in Procs |->
                    [bundle |-> IF i = 1 THEN 1 ELSE 0, skills |-> 0]]
    /\ fallbacks = [i \in Procs |-> [bundle |-> 0, skills |-> 0]]

NextLocal == AiOuterFallback(1)

SpecLocal == LocalInit /\ [][NextLocal]_vars

\* manual_eligibility_check has run and returned
LocalReturned(i) == fallbacks[i].bundle > 0 /\ IsDict(ai_eligibility[i])
LocalStatus(i, key) == ai_eligibility[i][2][key][2]["status"]

\* the numbers the local rules compare
AvgCgpa(i) == Get(UserOf(i), "avg_cgpa", PyFloat(0, 0))
MinCgpa(i) == CombinedOf(i).minCGPA
ActiveBacklogs(i) == Get(UserOf(i), "activeBacklogs", PyInt(0))
MaxAllowed(i) == CombinedOf(i).backlogs

\* C11: for numeric CGPAs and integer backlog counts the local rules give
\* cgpa pass exactly when CGPA >= minCGPA and backlogs pass exactly when
\* activeBacklogs <= maxBacklogs, both bounds included, and overallEligible
\* is the conjunction of the four statuses.
C11_InclusiveBounds ==
    fallbacks[1].bundle > 0
    /\ IsNum(AvgCgpa(1)) /\ IsNum(MinCgpa(1))
    /\ Tag(ActiveBacklogs(1)) = "int" /\ Tag(MaxAllowed(1)) = "int"
    => /\ IsDict(ai_eligibility[1])
       /\ LocalStatus(1, "cgpa") =
            (IF Mant(MinCgpa(1)) * Pow10(Expo(AvgCgpa(1)))
                    <= Mant(AvgCgpa(1)) * Pow10(Expo(MinCgpa(1)))
             THEN Pass ELSE Fail)
       /\ LocalStatus(1, "backlogs") =
            (IF ActiveBacklogs(1)[2] <= MaxAllowed(1)[2] THEN Pass ELSE Fail)
       /\ ai_eligibility[1][2]["overallEligible"] =
            PyBool(\A k \in BundleKeys : LocalStatus(1, k) = Pass)

\* the CGPA equals the minimum and the backlogs equal the maximum, and both
\* pass
C11_Witness ==
    /\ LocalReturned(1)
    /\ AvgCgpa(1) = PyFloat(7, 0) /\ MinCgpa(1) = PyFloat(7, 0)
    /\ ActiveBacklogs(1) = PyInt(1) /\ MaxAllowed(1) = PyInt(1)
    /\ LocalStatus(1, "cgpa") = Pass /\ LocalStatus(1, "backlogs") = Pass

\* the branches of the criteria, and the stream
BranchesOf(i) == CombinedOf(i).branches[2]
StreamOf(i) == Get(UserOf(i), "stream", PyStr(<<>>))

\* C12: the local rules give course pass exactly when the branches hold "All"
\* or hold the stream, letter case aside.
C12_BranchRule ==
    LocalReturned(1) =>
        LocalStatus(1, "course") =
            (IF \/ \E n \in DOMAIN BranchesOf(1) : BranchesOf(1)[n] = All
                \/ \E n \in DOMAIN BranchesOf(1) :
                    lower(BranchesOf(1)[n][2]) = lower(StreamOf(1)[2])
             THEN Pass ELSE Fail)

\* the stream is among the branches only when letter case is set aside
C12_Witness ==
    /\ LocalReturned(1)
    /\ LocalStatus(1, "course") = Pass
    /\ \A n \in DOMAIN BranchesOf(1) :
        BranchesOf(1)[n] # All /\ BranchesOf(1)[n] # StreamOf(1)

\* the text of a batch: the digits of an int, the characters of a str
BatchText(b) == IF Tag(b) = "int" THEN DigitsOf(b[2]) ELSE b[2]
BatchesOf(i) == CombinedOf(i).batch[2]
BatchOf(i) == Get(UserOf(i), "batch", PyStr(<<>>))

\* C13: the local rules give batch pass exactly when the text of the batch
\* is the text of an eligible batch, ints and strs alike.
C13_BatchAsText ==
    LocalReturned(1) =>
        LocalStatus(1, "batch") =
            (IF \E n \in DOMAIN BatchesOf(1) :
                    BatchText(BatchesOf(1)[n]) = BatchText(BatchOf(1))
             THEN Pass ELSE Fail)

\* an int batch passes against a str of the list, or a str against an int
C13_Witness ==
    /\ LocalReturned(1)
    /\ LocalStatus(1, "batch") = Pass
    /\ \A n \in DOMAIN BatchesOf(1) : BatchesOf(1)[n] # BatchOf(1)

\* the field is missing: absent from the mapping, null, or the empty string
IsMissing(d, k) == k \notin DOMAIN d \/ d[k] \in {PyNone, PyStr(<<>>)}

\* the bound that stands for a missing one
MinCgpaOrDefault(i) ==
    IF IsMissing(payload[i].eligibility, "minCGPA") THEN PyFloat(0, 0)
    ELSE float(payload[i].eligibility["minCGPA"])
MaxAllowedOrDefault(i) ==
    IF IsMissing(payload[i].criteria, "backlogs") THEN PyInt(0)
    ELSE payload[i].criteria["backlogs"]

\* C20: when minCGPA or maxBacklogs is missing (absent, null or the empty
\* string) the local rules evaluate with minCGPA 0.0 and maxBacklogs 0 and
\* raise nothing.
C20_MissingBoundsDefault ==
    fallbacks[1].bundle > 0
    /\ \/ IsMissing(payload[1].eligibility, "minCGPA")
       \/ IsMissing(payload[1].criteria, "backlogs")
    => /\ pc[1] # "raised"
       /\ IsDict(ai_eligibility[1])
       /\ LocalStatus(1, "cgpa") =
            (IF NumLeq(MinCgpaOrDefault(1), AvgCgpa(1)) THEN Pass ELSE Fail)
       /\ LocalStatus(1, "backlogs") =
            (IF NumLeq(ActiveBacklogs(1), MaxAllowedOrDefault(1))
             THEN Pass ELSE Fail)

(***************************************************************************)
(* The skill matcher on its own: match_user_skills_with_required is        *)
(* called after the four criteria are answered (specification SpecSkills)  *)
(***************************************************************************)
\* the longest list of skills drawn
MaxSkills == 2

SkillPool ==
    <<Python, PyStr(<<"p","y">>), SQL, PyStr(<<"I","T">>), PyStr(<<"c","s","e">>)>>

\* the lists of at most n skills of the pool, in the order of the pool
SkillLists(n) ==
    {SelectSeq(SkillPool, LAMBDA x : x \in chosen) :
        chosen \in {c \in SUBSET {SkillPool[k] : k \in DOMAIN SkillPool} :
                        Cardinality(c) <= n}}

\* the base payload with these skills; Absent leaves criteria.skills out
SkillsPayload(user_skills, required) ==
    [user |-> MkDict([id |-> PyStr(<<"test123">>),
                      name |-> PyStr(<<"Test Student">>),
                      avg_cgpa |-> PyFloat(85, 1), stream |-> CSE,
                      batch |-> Y2026, activeBacklogs |-> PyInt(0),
                      skills |-> PyList(user_skills)]),
     criteria |-> MkDict([cgpa |-> PyFloat(9, 0), backlogs |-> PyInt(0),
                          skills |-> required]),
     eligibility |-> MkDict([minCGPA |-> PyFloat(7, 0),
                             branches |-> PyList(<<All>>),
                             batch |-> PyList(<<Y2026>>)])]

SkillsPayloads ==
    {SkillsPayload(u, r) :
        u \in SkillLists(MaxSkills),
        r \in {PyList(x) : x \in SkillLists(MaxSkills)} \cup {Absent}}

\* the four criteria of invocation 1 are answered (line 363 has returned)
SkillsInit ==
    /\ pc = [i \in Procs |-> IF i = 1 THEN "sk_start" ELSE "idle"]
    /\ \E p \in SkillsPayloads :
        payload = [i \in Procs |-> IF i = 1 THEN p ELSE NoPayload]
    /\ bundle_resp = [i \in Procs |->
            IF i = 1 THEN Content(<<Obj(AllPassAnswer)>>) ELSE NotAsked]
    /\ skills_resp = [i \in Procs |-> NotAsked]
    /\ ai_eligibility = [i \in Procs |->
            IF i = 1 THEN PyDict(AllPassAnswer) ELSE PyNone]
    /\ skills_result = [i \in Procs |-> PyNone]
    /\ outcome = [i \in Procs |-> PyNone]
    /\ requests = [i \in Procs |->
                    [bundle |-> IF i = 1 THEN 1 ELSE 0, skills |-> 0]]
    /\ fallbacks = [i \in Procs |-> [bundle |-> 0, skills |-> 0]]

NextSkills ==
    \/ SkStart(1)
    \/ SkClient(1)
    \/ SkRequest(1, SkillsResponses(RequiredOf(1)))
    \/ SkInnerFallback(1)
    \/ SkOuterFallback(1)

SpecSkills == SkillsInit /\ [][NextSkills]_vars

\* match_user_skills_with_required has returned
SkillsReturned(i) == skills_result[i] # PyNone
MatchedOf(i) == Get(skills_result[i][2], "matchedSkills", PyNone)
MissingOf(i) == Get(skills_result[i][2], "missingSkills", PyNone)
SkillsStatusOf(i) == skills_result[i][2]["status"]

\* C14: with no required skills the result is pass with empty matchedSkills
\* and missingSkills, whatever the candidate's skills, and the oracle is not
\* asked.
C14_NoneRequiredPasses ==
    SkillsReturned(1) /\ RequiredOf(1) = <<>> =>
        /\ SkillsStatusOf(1) = Pass
        /\ MatchedOf(1) = PyList(<<>>) /\ MissingOf(1) = PyList(<<>>)
        /\ requests[1].skills = 0

\* nothing required of a candidate without skills
C14_Witness ==
    /\ SkillsReturned(1)
    /\ RequiredOf(1) = <<>> /\ SkillNamesOf(1) = <<>>

\* C15: with no candidate skills and some required skills the result is
\* fail with empty matchedSkills and missingSkills equal to requiredSkills.
C15_NoSkillsFails ==
    SkillsReturned(1) /\ SkillNamesOf(1) = <<>> /\ RequiredOf(1) # <<>> =>
        /\ SkillsStatusOf(1) = Fail
        /\ MatchedOf(1) = PyList(<<>>)
        /\ MissingOf(1) = PyList(RequiredOf(1))

C15_Witness ==
    /\ SkillsReturned(1)
    /\ SkillNamesOf(1) = <<>> /\ Len(RequiredOf(1)) = 2

\* C16: in every skills result the matched skills are no more than the
\* required ones, and the status is pass when all are matched, partial when
\* some but not all are, fail when none is.
C16_StatusByCount ==
    SkillsReturned(1) =>
        /\ IsList(MatchedOf(1))
        /\ Len(MatchedOf(1)[2]) <= Len(RequiredOf(1))
        /\ SkillsStatusOf(1) =
            (IF Len(MatchedOf(1)[2]) = Len(RequiredOf(1)) THEN Pass
             ELSE IF Len(MatchedOf(1)[2]) > 0 THEN Partial
             ELSE Fail)

(***************************************************************************)
(* The recommendations of a report (specification Spec)                    *)
(***************************************************************************)
RecommendationsOf(i) == Report(i).recommendations[2]

\* what a recommendation is about, told by how its text begins and ends
KindOf(rec) ==
    LET first == rec[2][1]
        last == rec[2][Len(rec[2])]
    IN  CASE first = "Improve your CGPA to at least " -> "cgpa"
          [] first = "Clear your active backlogs before applying" -> "backlogs"
          [] first = "This opportunity is only for " /\ last = " branches" -> "course"
          [] first = "This opportunity is only for " /\ last = " batch" -> "batch"
          [] first \in {"Consider developing skills in: ",
                        "Consider developing additional skills in: "} -> "skills"
          [] OTHER -> "closing"

KindsOf(i) == [n \in DOMAIN RecommendationsOf(i) |-> KindOf(RecommendationsOf(i)[n])]

\* the recommendations of one kind, in their order
OfKind(i, kind) == SelectSeq(RecommendationsOf(i), LAMBDA rec : KindOf(rec) = kind)

\* the failing criteria in the fixed order
FailingOf(i) ==
    SelectSeq(<<"cgpa", "backlogs", "course", "batch">>,
              LAMBDA k : StatusOf(i, k) = Fail)

\* C17: the recommendations start with one entry per failing criterion, in
\* the order cgpa, backlogs, course, batch, then the skills entry if any,
\* then the closing block.
C17_FixedOrder ==
    Returned(1) =>
        LET kinds == KindsOf(1)
            n == Len(FailingOf(1))
        IN  /\ Len(kinds) > n
            /\ SubSeq(kinds, 1, n) = FailingOf(1)
            /\ \A k \in (n + 1)..Len(kinds) : kinds[k] \in {"skills", "closing"}
            /\ \A k \in (n + 2)..Len(kinds) : kinds[k] = "closing"

\* backlogs and course both fail, and there is a skills entry
C17_Witness ==
    /\ Returned(1)
    /\ StatusOf(1, "backlogs") = Fail /\ StatusOf(1, "course") = Fail
    /\ OfKind(1, "skills") # <<>>

Eligible == PyStr(<<"You are eligible! Prepare well for the selection process">>)
Review == PyStr(<<"Review the job description and company information thoroughly">>)
Align == PyStr(<<"Your skills align well with the requirements">>)
Highlight ==
    PyStr(<<"You have some of the desired skills - highlight them in your application">>)
Focus == PyStr(<<"Focus on meeting the basic eligibility criteria before applying">>)

\* the closing block ends the list
ClosingEndsList(i) ==
    /\ OfKind(i, "closing") # <<>>
    /\ SubSeq(RecommendationsOf(i),
              Len(RecommendationsOf(i)) - Len(OfKind(i, "closing")) + 1,
              Len(RecommendationsOf(i))) = OfKind(i, "closing")

\* C18 as stated: an eligible report closes with three statements, the third
\* by the skills status; an ineligible one with the single corrective one;
\* the closing block ends the list.
C18_ThreeStatements ==
    Returned(1) =>
        /\ ClosingEndsList(1)
        /\ Truthy(Report(1).isEligible) =>
            /\ Len(OfKind(1, "closing")) = 3
            /\ SubSeq(OfKind(1, "closing"), 1, 2) = <<Eligible, Review>>
            /\ StatusOf(1, "skills") = Pass => OfKind(1, "closing")[3] = Align
            /\ StatusOf(1, "skills") = Partial => OfKind(1, "closing")[3] = Highlight
        /\ ~Truthy(Report(1).isEligible) => OfKind(1, "closing") = <<Focus>>

\* C18 amended: an eligible report closes with two statements, and a third
\* when the skills status is pass or partial; an ineligible one with the
\* single corrective one; the closing block ends the list.
C18_TwoOrThreeStatements ==
    Returned(1) =>
        /\ ClosingEndsList(1)
        /\ Truthy(Report(1).isEligible) =>
            OfKind(1, "closing") =
                <<Eligible, Review>>
                \o (CASE StatusOf(1, "skills") = Pass -> <<Align>>
                      [] StatusOf(1, "skills") = Partial -> <<Highlight>>
                      [] OTHER -> <<>>)
        /\ ~Truthy(Report(1).isEligible) => OfKind(1, "closing") = <<Focus>>

\* an eligible candidate with none of the required skills
C18_Witness ==
    /\ Returned(1)
    /\ Report(1).isEligible = PyBool(TRUE)
    /\ StatusOf(1, "skills") = Fail
    /\ Len(OfKind(1, "closing")) = 2

\* C19: exactly one skills entry naming the missing skills when the skills
\* status is fail and skills are required, exactly one of the softer wording
\* when it is partial, none when it is pass.
C19_OneSkillsEntry ==
    Returned(1) =>
        LET entries == OfKind(1, "skills")
            status == StatusOf(1, "skills")
        IN  /\ status = Fail /\ RequiredOf(1) # <<>> =>
                /\ Len(entries) = 1
                /\ entries[1][2][1] = "Consider developing skills in: "
            /\ status = Partial =>
                /\ Len(entries) = 1
                /\ entries[1][2][1] = "Consider developing additional skills in: "
            /\ status = Pass => entries = <<>>

(***************************************************************************)
(* The merge of post.criteria and post.eligibility (specification          *)
(* SpecMerge): payloads in which both mappings hold every key              *)
(***************************************************************************)
ECE == PyStr(<<"E","C","E">>)

MergePayloads ==
    {[user |-> MkDict([id |-> PyStr(<<"test123">>),
                       name |-> PyStr(<<"Test Student">>),
                       avg_cgpa |-> PyFloat(75, 1), stream |-> CSE,
                       batch |-> Y2026, activeBacklogs |-> PyInt(1),
                       skills |-> PyList(<<Python>>)]),
      criteria |-> MkDict([cgpa |-> c_cgpa, backlogs |-> c_backlogs,
                           skills |-> c_skills, branches |-> c_branches,
                           batch |-> c_batch]),
      eligibility |-> MkDict([minCGPA |-> e_minCGPA, branches |-> e_branches,
                              batch |-> e_batch, backlogs |-> e_backlogs,
                              skills |-> e_skills])] :
        c_cgpa \in {Absent, PyFloat(9, 0), PyFloat(6, 0)},
        e_minCGPA \in {Absent, PyFloat(7, 0), PyFloat(8, 0)},
        c_backlogs \in {Absent, PyInt(1)},
        e_backlogs \in {Absent, PyInt(5)},
        c_skills \in {Absent, PyList(<<Python>>)},
        e_skills \in {Absent, PyList(<<SQL>>)},
        c_branches \in {Absent, PyList(<<ECE>>)},
        e_branches \in {Absent, PyList(<<CSE>>)},
        c_batch \in {Absent, PyList(<<Y2025>>)},
        e_batch \in {Absent, PyList(<<Y2026>>)}}

\* the invocation up to the answer on the four criteria, the oracle failing
NextMerge ==
    \/ Invoke(1, MergePayloads)
    \/ AiClient(1)
    \/ AiRequest(1, {Exception, Content(<<Text>>)})
    \/ AiInnerFallback(1)
    \/ AiOuterFallback(1)

SpecMerge == Init /\ [][NextMerge]_vars

\* d[k] when present, else the first of the others that is not Absent
Preferred(d, k, others) ==
    IF k \in DOMAIN d THEN d[k]
    ELSE others[CHOOSE n \in DOMAIN others :
                    /\ others[n] # Absent
                    /\ \A m \in 1..(n - 1) : others[m] = Absent]
OrAbsent(d, k) == IF k \in DOMAIN d THEN d[k] ELSE Absent

\* C21: minCGPA, branches and batch are taken from post.eligibility whenever
\* it holds them, minCGPA from criteria.cgpa only when it does not;
\* maxBacklogs and requiredSkills are taken from post.criteria whatever
\* post.eligibility holds; the local rules judge against the merged values.
C21_MergePrecedence ==
    pc[1] # "idle" =>
        LET e == payload[1].eligibility
            c == payload[1].criteria
            floor == Preferred(e, "minCGPA", <<OrAbsent(c, "cgpa"), PyFloat(0, 0)>>)
            allowed == Preferred(c, "backlogs", <<PyInt(0)>>)
        IN  /\ CombinedOf(1).minCGPA = floor
            /\ CombinedOf(1).branches = Preferred(e, "branches", <<PyList(<<>>)>>)
            /\ CombinedOf(1).batch = Preferred(e, "batch", <<PyList(<<>>)>>)
            /\ CombinedOf(1).backlogs = allowed
            /\ PyList(RequiredOf(1)) = Preferred(c, "skills", <<PyList(<<>>)>>)
            /\ LocalReturned(1) =>
                /\ LocalStatus(1, "cgpa") =
                    (IF NumLeq(floor, AvgCgpa(1)) THEN Pass ELSE Fail)
                /\ LocalStatus(1, "backlogs") =
                    (IF NumLeq(ActiveBacklogs(1), allowed) THEN Pass ELSE Fail)

\* both mappings hold a minimum CGPA, a backlog bound and branches, all
\* different, and the local rules have judged
C21_Witness ==
    /\ LocalReturned(1)
    /\ OrAbsent(payload[1].criteria, "cgpa") = PyFloat(9, 0)
    /\ OrAbsent(payload[1].eligibility, "minCGPA") = PyFloat(7, 0)
    /\ OrAbsent(payload[1].criteria, "backlogs") = PyInt(1)
    /\ OrAbsent(payload[1].eligibility, "backlogs") = PyInt(5)
    /\ "branches" \in DOMAIN payload[1].criteria
    /\ "branches" \in DOMAIN payload[1].eligibility
    /\ LocalStatus(1, "cgpa") = Pass

(***************************************************************************)
(* One invocation run alone, as a function of its payload and of what the  *)
(* oracle did on its two requests                                          *)
(***************************************************************************)
\* what check_eligibility_with_ai returns or raises for this response
AloneBundle(p, response) ==
    LET local == manual_eligibility_check(
                    p.user, combined_eligibility(p.criteria, p.eligibility))
    IN  IF response = NotAsked THEN Raise("GroqError")
        ELSE IF response[1] = "content" /\ ~IsRaise(ExtractJson(response[2]))
        THEN ExtractJson(response[2])
        ELSE local

\* what match_user_skills_with_required returns or raises for this response
AloneSkills(p, response) ==
    LET names == user_skill_names(Get(p.user, "skills", PyList(<<>>))[2])
        required == required_skills_of(p.criteria)
        short == SkillsShortCircuit(names, required)
        local == fallback_skills_matching(names, required)
        parsed == ExtractJson(response[2])
    IN  IF short # PyNone THEN {short}
        ELSE IF response = NotAsked
        THEN {Raise("GroqError")}
             \cup (IF IsRaise(Join(<<", ">>, names)) \/ IsRaise(Join(<<", ">>, required))
                   THEN {Raise("TypeError")} ELSE {})
        ELSE IF response[1] # "content" \/ IsRaise(parsed) THEN {local}
        ELSE IF IsRaise(SkillsFromOracle(parsed, required)) THEN {local}
        ELSE {SkillsFromOracle(parsed, required)}

\* the reports and exceptions of the invocation run alone
AloneOutcomes(p, bundle_response, skills_response) ==
    LET ai == AloneBundle(p, bundle_response)
    IN  IF IsRaise(ai) THEN {ai}
        ELSE {IF IsRaise(skills) THEN skills
              ELSE BuildResponse(p.user, p.criteria, p.eligibility, ai, skills) :
                skills \in AloneSkills(p, skills_response)}

\* C22: under every interleaving of two invocations each ends as it would
\* alone with its payload and with what the oracle did on its requests.
C22_InterleavedAsAlone ==
    \A i \in Procs :
        Finished(i) =>
            outcome[i] \in AloneOutcomes(payload[i], bundle_resp[i], skills_resp[i])

\* two invocations on different payloads have both run the local matcher
\* and returned
C22_Witness ==
    /\ Returned(1) /\ Returned(2)
    /\ payload[1] # payload[2]
    /\ fallbacks[1].skills > 0 /\ fallbacks[2].skills > 0
    /\ BreakdownOf(1)["skills"] # BreakdownOf(2)["skills"]

(***************************************************************************)
(* The requests of one invocation                                          *)
(***************************************************************************)
\* C23: one invocation sends at most one request for the bundle and at most
\* one for the skills, and exactly one for each part that fell back: what
\* failed or could not be parsed is not asked again.
C23_OneRequestEach ==
    /\ requests[1].bundle <= 1 /\ requests[1].skills <= 1
    /\ fallbacks[1].bundle > 0 => requests[1].bundle = 1
    /\ fallbacks[1].skills > 0 => requests[1].skills = 1

\* the bundle request failed, the skills answer could not be parsed, both
\* fell back and the report was returned
C23_Witness ==
    /\ Returned(1)
    /\ bundle_resp[1] = Exception
    /\ skills_resp[1] = Content(<<Text>>)
    /\ fallbacks[1].bundle > 0 /\ fallbacks[1].skills > 0
    /\ requests[1] = [bundle |-> 1, skills |-> 1]

(***************************************************************************)
(* The parsing of a response                                               *)
(***************************************************************************)
\* the first balanced JSON object of a text: the first segment holding an
\* opening brace, when that segment is a whole object
FirstObject(segs) ==
    LET opens == {k \in DOMAIN segs : HasOpen(segs[k])}
        first == CHOOSE k \in opens : \A j \in opens : k <= j
    IN  IF opens # {} /\ segs[first][1] = "obj" THEN PyDict(segs[first][2])
        ELSE PyNone

\* C24: a response whose first balanced JSON object is followed by further
\* text, braces included, is parsed as that object: the bundle's result is
\* the object and the local rules did not run.
C24_FirstObjectParsed ==
    (/\ ai_eligibility[1] # PyNone
     /\ bundle_resp[1][1] = "content"
     /\ FirstObject(bundle_resp[1][2]) # PyNone)
    => (/\ ai_eligibility[1] = FirstObject(bundle_resp[1][2])
        /\ fallbacks[1].bundle = 0)

(***************************************************************************)
(* fallback_skills_matching called on its own, twice, on two lists each    *)
(* (specification SpecMatch)                                               *)
(***************************************************************************)
JavaScript == PyStr(<<"J","a","v","a","S","c","r","i","p","t">>)
PaddedJS == PyStr(<<" ","J","S">>)
EmptySkill == PyStr(<<>>)
BlankSkill == PyStr(<<" "," ">>)

MatchPool ==
    <<Python, PyStr(<<"p","y">>), PaddedJS, JavaScript, SQL,
      PyStr(<<"M","y","S","Q","L">>), PyStr(<<"I","T">>),
      PyStr(<<"c","s","e">>), EmptySkill, BlankSkill>>

\* the skills the longer lists are drawn from
ListPool ==
    <<Python, PyStr(<<"p","y">>), SQL, PyStr(<<"I","T">>),
      PyStr(<<"c","s","e">>), EmptySkill>>

\* the lists of at most n skills of ListPool, in its order
MatchLists(n) ==
    {SelectSeq(ListPool, LAMBDA x : x \in chosen) :
        chosen \in {c \in SUBSET {ListPool[k] : k \in DOMAIN ListPool} :
                        Cardinality(c) <= n}}

Arguments(user_skills, required_skills) ==
    [user_skills |-> user_skills, required_skills |-> required_skills]

\* the two calls: one skill against one skill and the same two exchanged,
\* or a list of candidate skills and the same list with one skill more
MatchCalls ==
    {<<Arguments(<<u>>, <<r>>), Arguments(<<r>>, <<u>>)>> :
        u \in {MatchPool[k] : k \in DOMAIN MatchPool},
        r \in {MatchPool[k] : k \in DOMAIN MatchPool}}
    \cup {<<Arguments(us, rs), Arguments(us \o <<u>>, rs)>> :
            us \in MatchLists(MaxSkills - 1),
            u \in {ListPool[k] : k \in DOMAIN ListPool},
            rs \in MatchLists(MaxSkills)}

MatchInit ==
    /\ pc = [i \in Procs |-> "fb_call"]
    /\ \E c \in MatchCalls : payload = [i \in Procs |-> c[i]]
    /\ bundle_resp = [i \in Procs |-> NotAsked]
    /\ skills_resp = [i \in Procs |-> NotAsked]
    /\ ai_eligibility = [i \in Procs |-> PyNone]
    /\ skills_result = [i \in Procs |-> PyNone]
    /\ outcome = [i \in Procs |-> PyNone]
    /\ requests = [i \in Procs |-> [bundle |-> 0, skills |-> 0]]
    /\ fallbacks = [i \in Procs |-> [bundle |-> 0, skills |-> 0]]

\* lines 118-193: one call of fallback_skills_matching
FallbackCall(i) ==
    /\ pc[i] = "fb_call"
    /\ skills_result' = [skills_result EXCEPT ![i] =
            fallback_skills_matching(payload[i].user_skills,
                                     payload[i].required_skills)]
    /\ pc' = [pc EXCEPT ![i] = "fb_done"]
    /\ fallbacks' = [fallbacks EXCEPT ![i].skills = @ + 1]
    /\ UNCHANGED <<payload, bundle_resp, skills_resp, ai_eligibility, outcome,
                   requests>>

NextMatch == \E i \in Procs : FallbackCall(i)

SpecMatch == MatchInit /\ [][NextMatch]_vars

Called(i) == pc[i] = "fb_done"
CandidatesOf(i) == payload[i].user_skills
WantedOf(i) == payload[i].required_skills

\* call 2 is call 1 with the one required and the one candidate exchanged
Exchanged ==
    /\ Len(CandidatesOf(1)) = 1 /\ Len(WantedOf(1)) = 1
    /\ CandidatesOf(2) = WantedOf(1) /\ WantedOf(2) = CandidatesOf(1)

\* (a), (b), (c) for two strings
Related(a, b) ==
    \/ a = b
    \/ MappedTo(a, b) \/ MappedTo(b, a)
    \/ Contains(a, b) \/ Contains(b, a)

\* the required skills some candidate is related to, and the others, the
\* skills compared lower-cased, and trimmed or not
RelatedSkills(i, trimmed, wanted) ==
    LET Form(s) == IF trimmed THEN strip(lower(s)) ELSE lower(s)
    IN  SelectSeq(WantedOf(i),
                  LAMBDA r : (\E k \in DOMAIN CandidatesOf(i) :
                                Related(Form(r[2]), Form(CandidatesOf(i)[k][2])))
                             = wanted)

\* C25 as stated: a required skill is matched exactly when some candidate
\* equals it ignoring case, or is linked to it by the table in either
\* direction, or contains it or is contained in it; one skill against one
\* skill matches both ways or neither.
C25_MatchRelationIgnoringCase ==
    /\ \A i \in Procs :
        Called(i) =>
            /\ MatchedOf(i) = PyList(RelatedSkills(i, FALSE, TRUE))
            /\ MissingOf(i) = PyList(RelatedSkills(i, FALSE, FALSE))
    /\ Called(1) /\ Called(2) /\ Exchanged =>
            (MatchedOf(1)[2] = <<>> <=> MatchedOf(2)[2] = <<>>)

\* C25 as amended: the same, the skills being compared once lower-cased and
\* trimmed of the whitespace around them.
C25_MatchRelationTrimmed ==
    /\ \A i \in Procs :
        Called(i) =>
            /\ MatchedOf(i) = PyList(RelatedSkills(i, TRUE, TRUE))
            /\ MissingOf(i) = PyList(RelatedSkills(i, TRUE, FALSE))
    /\ Called(1) /\ Called(2) /\ Exchanged =>
            (MatchedOf(1)[2] = <<>> <=> MatchedOf(2)[2] = <<>>)

\* " JS" against "JavaScript", matched both ways through the table
C25_Witness ==
    /\ Called(1) /\ Called(2) /\ Exchanged
    /\ CandidatesOf(1) = <<PaddedJS>> /\ WantedOf(1) = <<JavaScript>>
    /\ MatchedOf(1) = PyList(<<JavaScript>>)
    /\ MatchedOf(2) = PyList(<<PaddedJS>>)

(***************************************************************************)
(* Failures around the requests (specification Spec)                       *)
(***************************************************************************)
\* C26: a failure while the client is constructed is absorbed: it does not
\* leave the invocation as an exception, the local result is used instead.
C26_ClientFailureAbsorbed == ~ClientFailed(1)

\* C27: in one invocation the local rules run at most once for the four
\* criteria and the local matcher at most once for the skills, on every
\* path.
C27_FallbackAtMostOnce ==
    fallbacks[1].bundle <= 1 /\ fallbacks[1].skills <= 1

(***************************************************************************)
(* Two invocations whose payloads write the candidate's skills differently *)
(* (specification SpecForms)                                               *)
(***************************************************************************)
Advanced == PyStr(<<"Advanced">>)

\* user.skills as strings, as objects, mixed with entries that name nothing,
\* with other names, and naming nothing at all
SkillForms ==
    {PyList(<<PyStr(<<"p","y">>), SQL>>),
     PyList(<<PyDict([name |-> PyStr(<<"p","y">>), level |-> Advanced]),
              PyDict([name |-> SQL])>>),
     PyList(<<PyInt(3), PyStr(<<"p","y">>), PyDict([level |-> Advanced]),
              PyDict([name |-> SQL, level |-> Advanced]), PyNone>>),
     PyList(<<PyDict([name |-> Python])>>),
     PyList(<<PyInt(3), PyDict([level |-> Advanced])>>),
     PyList(<<>>)}

FormPayloads ==
    {[p EXCEPT !.user = With(p.user, "skills", f)] :
        p \in {Changed("skills", 1)}, f \in SkillForms}

NextForms ==
    \E i \in Procs :
        \/ Invoke(i, FormPayloads)
        \/ AiClient(i)
        \/ AiRequest(i, PairBundleResponses)
        \/ AiInnerFallback(i)
        \/ AiOuterFallback(i)
        \/ SkStart(i)
        \/ SkClient(i)
        \/ SkRequest(i, PairSkillsResponses(RequiredOf(i)))
        \/ SkInnerFallback(i)
        \/ SkOuterFallback(i)
        \/ Combine(i)

SpecForms == Init /\ [][NextForms]_vars

\* the names a list of skills gives: a string names itself, an object with a
\* name field names that, any other entry names nothing
RECURSIVE NamesIn(_)
NamesIn(entries) ==
    IF entries = <<>> THEN <<>>
    ELSE LET e == Head(entries)
             name == IF Tag(e) = "str" THEN <<e>>
                     ELSE IF Tag(e) = "dict" /\ "name" \in DOMAIN e[2]
                     THEN <<e[2]["name"]>>
                     ELSE <<>>
         IN  name \o NamesIn(Tail(entries))

RawSkills(i) == payload[i].user["skills"][2]

\* the two payloads give the same names and agree on everything else, and
\* the oracle behaved alike on both
SameButForm ==
    /\ NonSkill(payload[1]) = NonSkill(payload[2])
    /\ payload[1].criteria = payload[2].criteria
    /\ NamesIn(RawSkills(1)) = NamesIn(RawSkills(2))
    /\ bundle_resp[1] = bundle_resp[2]
    /\ skills_resp[1] = skills_resp[2]

\* C28: two invocations whose payloads differ only in how the candidate's
\* skills are written, the names being the same, end alike under the same
\* oracle behaviour: the same breakdown, isEligible and recommendations; an
\* entry that is neither a string nor an object with a name changes nothing
\* and raises nothing.
C28_SameNamesSameEvaluation ==
    Finished(1) /\ Finished(2) /\ SameButForm =>
        /\ pc[1] = pc[2]
        /\ Returned(1) =>
            /\ BreakdownOf(1) = BreakdownOf(2)
            /\ Report(1).isEligible = Report(2).isEligible
            /\ Report(1).recommendations = Report(2).recommendations

\* strings against objects mixed with entries that name nothing, both
\* matched by the local matcher
C28_Witness ==
    /\ Returned(1) /\ Returned(2) /\ SameButForm
    /\ \A k \in DOMAIN RawSkills(1) : IsStr(RawSkills(1)[k])
    /\ \E k \in DOMAIN RawSkills(2) : IsDict(RawSkills(2)[k])
    /\ \E k \in DOMAIN RawSkills(2) : Tag(RawSkills(2)[k]) = "int"
    /\ skills_resp[1] = Exception
    /\ StatusOf(1, "skills") = Pass

(***************************************************************************)
(* More candidate skills, and blank ones (specification SpecMatch)         *)
(***************************************************************************)
StatusRank(status) ==
    CASE status = Fail -> 0
      [] status = Partial -> 1
      [] status = Pass -> 2

\* call 2 has the required skills of call 1 and all its candidate skills
Grown ==
    /\ WantedOf(1) = WantedOf(2)
    /\ {CandidatesOf(1)[k] : k \in DOMAIN CandidatesOf(1)}
         \subseteq {CandidatesOf(2)[k] : k \in DOMAIN CandidatesOf(2)}

\* C29: with the same required skills and more candidate skills, every
\* required skill that was matched is still matched, none moves to missing
\* and the status is not lower.
C29_MonotoneInCandidates ==
    Called(1) /\ Called(2) /\ Grown =>
        /\ Items(MatchedOf(1)) \subseteq Items(MatchedOf(2))
        /\ Items(MissingOf(2)) \subseteq Items(MissingOf(1))
        /\ StatusRank(SkillsStatusOf(1)) <= StatusRank(SkillsStatusOf(2))

\* one candidate skill more turned partial into pass
C29_Witness ==
    /\ Called(1) /\ Called(2) /\ Grown
    /\ Len(CandidatesOf(2)) = Len(CandidatesOf(1)) + 1
    /\ SkillsStatusOf(1) = Partial /\ SkillsStatusOf(2) = Pass
    /\ MatchedOf(1) # PyList(<<>>)

IsBlank(skill) == strip(skill[2]) = <<>>

\* C30: candidate skills that are all empty or whitespace match nothing: the
\* status is fail and every required skill is missing.
C30_BlankMatchesNothing ==
    \A i \in Procs :
        (/\ Called(i)
         /\ CandidatesOf(i) # <<>> /\ WantedOf(i) # <<>>
         /\ \A k \in DOMAIN CandidatesOf(i) : IsBlank(CandidatesOf(i)[k])
         /\ \A k \in DOMAIN WantedOf(i) : ~IsBlank(WantedOf(i)[k]))
        => /\ SkillsStatusOf(i) = Fail
           /\ MatchedOf(i) = PyList(<<>>)
           /\ MissingOf(i) = PyList(WantedOf(i))

====
